---------------------------- MODULE Spec2Model ----------------------------
(***************************************************************************)
(* Room availability, booking and reservation status handling of the Stay  *)
(* Palms reservation system (src/src/App.tsx, ReservationForm.tsx,         *)
(* hooks/useAutoCancellation.ts, hooks/useReservations.ts).                *)
(*                                                                         *)
(* Time.  A JavaScript Date is modelled by its instant, an integer number  *)
(* of minutes since 00:00 UTC of day 0.  A calendar date ("YYYY-MM-DD", a  *)
(* form field or a column of the reservations table) is a day number.      *)
(* Local time is UTC + tz minutes, tz being fixed during a run (no DST     *)
(* change happens inside the modelled days).                               *)
(***************************************************************************)
EXTENDS Integers, Sequences, FiniteSets, TLC

VARIABLES
  reminderFor,             \* App.tsx 405-433: the reservation a sendReminder call is for, <<>> if none
  todayUTC,                \* App.tsx 67-70: UTC midnight of the day the app was opened
  overdueCheckOuts,        \* App.tsx 137-161: the memoised dashboard list
  reservationsError,       \* useReservations: error, "" while it is null
  mail,                    \* the sendEmail call: its position, what it received, its promise
  tz,                      \* the browser's offset from UTC, in minutes
  hotelSettings,           \* App.tsx useLocalStorage('hotel-settings')
  now,                     \* the instant new Date() returns
  db,                      \* the reservations table of the store
  reservations,            \* useReservations: the in-memory snapshot
  requests,                \* calls to the store that are in flight
  responses,               \* answers of the store not yet received
  editingReservation,      \* App.tsx state, <<>> for null
  pendingReservationData,  \* App.tsx state, <<>> for null
  overbookedDates,         \* App.tsx state
  showOverbookingWarning,  \* App.tsx state
  reservationToCancel,     \* ReservationList state, <<>> for null
  form,                    \* the reservation form as last rendered, <<>> if none
  sweepLog                 \* what the last checkForNoShows run logged

vars == <<reminderFor, todayUTC, overdueCheckOuts, reservationsError, mail, tz,
          hotelSettings,
          now, db, reservations, requests, responses, editingReservation,
          pendingReservationData, overbookedDates, showOverbookingWarning,
          reservationToCancel, form, sweepLog>>

-----------------------------------------------------------------------------
(* Bounds of the model *)

MaxDay == 3          \* the booking form's dates are FirstDay..MaxDay
MaxStayDay == 4      \* the dates of stays loaded from the table are FirstDay..MaxStayDay
MaxRes == 2          \* reservations ever created in a run
MaxStatusRows == 1   \* rows of the table the status actions run on
MaxRequests == 2     \* calls to the store in flight at once

(* Program constants *)

MinutesPerDay == 1440    \* 24 * 60 * 60 * 1000 ms
CutoffMinutes == 660     \* cutoffTime.setHours(11, 0, 0, 0)
maxSearchDays == 365
ReminderDays == 3        \* Dashboard.tsx 56: reminders are due within 3 days
oneAMInMinutes == 60     \* Dashboard.tsx 68
nineAMInMinutes == 540   \* ReservationForm.tsx 636: now.getHours() >= 9

FirstDay == 2
Days == FirstDay..MaxDay
StayDays == FirstDay..MaxStayDay

\* HH:MM settings the runs draw from: the default 15:00 / 11:00, equal times,
\* and a check-in time earlier than the check-out time.
DefaultTimes == <<"15:00", "11:00">>     \* App.tsx 81-82
TimePairs == { <<"15:00", "11:00">>, <<"12:00", "12:00">>, <<"10:00", "12:00">> }
TzOffsets == { -360, 0, 60 }

RoomTypeIds == {"standard", "suite"}
CustomerIds == {"c1"}
Statuses == {"confirmed", "checked-in", "checked-out", "cancelled"}

\* App.tsx 83-90: the default roster.
DefaultRooms ==
  << [id |-> "1", roomTypeId |-> "standard", isActive |-> TRUE],
     [id |-> "2", roomTypeId |-> "standard", isActive |-> TRUE],
     [id |-> "3", roomTypeId |-> "deluxe",   isActive |-> TRUE],
     [id |-> "4", roomTypeId |-> "deluxe",   isActive |-> TRUE],
     [id |-> "5", roomTypeId |-> "suite",    isActive |-> TRUE],
     [id |-> "6", roomTypeId |-> "family",   isActive |-> TRUE] >>

-----------------------------------------------------------------------------
(* Sequences *)

Range(s) == { s[i] : i \in 1..Len(s) }

Max2(a, b) == IF a >= b THEN a ELSE b

-----------------------------------------------------------------------------
(* Dates *)

\* "HH:MM".split(':').map(Number), then hours * 60 + minutes
ParseTime(timeString) ==
  CASE timeString = "15:00" -> 15 * 60
    [] timeString = "11:00" -> 11 * 60
    [] timeString = "12:00" -> 12 * 60
    [] timeString = "10:00" -> 10 * 60

\* getUTCFullYear/getUTCMonth/getUTCDate, toISOString().split('T')[0]
UTCDay(t) == t \div MinutesPerDay
\* getFullYear/getMonth/getDate
LocalDay(t) == (t + tz) \div MinutesPerDay
\* Date.UTC(y, m, d), new Date(s + 'T00:00:00.000Z')
UTCMidnight(d) == d * MinutesPerDay
\* new Date(y, m, d), setHours(0, 0, 0, 0)
LocalMidnight(d) == d * MinutesPerDay - tz
\* getHours() * 60 + getMinutes()
LocalMinutes(t) == (t + tz) % MinutesPerDay

-----------------------------------------------------------------------------
(* Pure helpers of the availability computations *)

\* App.tsx 191-212: a Date normalised to UTC midnight, plus HH:MM
App_createTimeAwareDate(dateInput, timeString) ==
  UTCMidnight(UTCDay(dateInput)) + ParseTime(timeString)

\* ReservationForm.tsx 51-72: a Date normalised to local midnight, plus HH:MM
Form_createTimeAwareDate(dateInput, timeString) ==
  LocalMidnight(LocalDay(dateInput)) + ParseTime(timeString)

\* the test with its first comparison strict: stays that touch would overlap
OverlapsClosed(resCheckIn, resCheckOut, checkIn, checkOut) ==
  ~(resCheckOut < checkIn \/ resCheckIn >= checkOut)

\* !(resCheckOut <= checkIn || resCheckIn >= checkOut)
Overlaps(resCheckIn, resCheckOut, checkIn, checkOut) ==
  ~(resCheckOut <= checkIn \/ resCheckIn >= checkOut)

\* the filter without room.isActive: rooms out of service would count
roomsOfTypeInactiveToo(roomType) ==
  SelectSeq(hotelSettings.rooms, LAMBDA room : room.roomTypeId = roomType)

\* rooms.filter(room => room.roomTypeId === roomType && room.isActive)
roomsOfType(roomType) ==
  SelectSeq(hotelSettings.rooms,
            LAMBDA room : room.roomTypeId = roomType /\ room.isActive)

\* the count taking guests in house only: confirmed stays would not count
occupiedRoomsCheckedInOnly(newReservation, currentDate) ==
  LET currentCheckIn  == App_createTimeAwareDate(currentDate, hotelSettings.checkInTime)
      currentCheckOut == App_createTimeAwareDate(currentDate + MinutesPerDay,
                                                 hotelSettings.checkOutTime)
      Counted(reservation) ==
        /\ reservation.status = "checked-in"
        /\ reservation.roomType = newReservation.roomType
        /\ Overlaps(App_createTimeAwareDate(reservation.checkInDate, hotelSettings.checkInTime),
                    App_createTimeAwareDate(reservation.checkOutDate, hotelSettings.checkOutTime),
                    currentCheckIn, currentCheckOut)
  IN  Len(SelectSeq(reservations, Counted))

\* App.tsx 226-242: the reservations counted against one night
occupiedRoomsOfType(newReservation, currentDate) ==
  LET currentCheckIn  == App_createTimeAwareDate(currentDate, hotelSettings.checkInTime)
      nextDay         == currentDate + MinutesPerDay
      currentCheckOut == App_createTimeAwareDate(nextDay, hotelSettings.checkOutTime)
      Counted(reservation) ==
        /\ ~(reservation.status = "cancelled" \/ reservation.status = "checked-out")
        /\ reservation.roomType = newReservation.roomType
        /\ Overlaps(App_createTimeAwareDate(reservation.checkInDate, hotelSettings.checkInTime),
                    App_createTimeAwareDate(reservation.checkOutDate, hotelSettings.checkOutTime),
                    currentCheckIn, currentCheckOut)
  IN  Len(SelectSeq(reservations, Counted))

\* the loop comparing the count without the candidate's own room
RECURSIVE checkNightsWithoutCandidate(_, _)
checkNightsWithoutCandidate(newReservation, currentDate) ==
  IF ~(currentDate < newReservation.checkOutDate) THEN <<>>
  ELSE (IF occupiedRoomsOfType(newReservation, currentDate)
             > Len(roomsOfType(newReservation.roomType))
        THEN <<currentDate>> ELSE <<>>)
       \o checkNightsWithoutCandidate(newReservation, currentDate + MinutesPerDay)

\* App.tsx 219-254: the while loop, currentDate.setDate(getDate() + 1) per turn
RECURSIVE checkNights(_, _)
checkNights(newReservation, currentDate) ==
  IF ~(currentDate < newReservation.checkOutDate) THEN <<>>
  ELSE (IF occupiedRoomsOfType(newReservation, currentDate) + 1
             > Len(roomsOfType(newReservation.roomType))
        THEN <<currentDate>> ELSE <<>>)
       \o checkNights(newReservation, currentDate + MinutesPerDay)

\* App.tsx 186-257
checkRoomAvailability(newReservation) ==
  checkNights(newReservation, newReservation.checkInDate)

-----------------------------------------------------------------------------
(* The reservation form.  formData holds day numbers for its two date      *)
(* fields (0: empty) and strings for the rest; initialData is <<>> or      *)
(* <<the reservation being edited>>.                                       *)

\* the filter without the line that skips the reservation being edited
overlappingReservationsWithEdited(formData, initialData, newCheckIn, newCheckOut) ==
  LET Kept(reservation) ==
        /\ ~(reservation.status = "cancelled" \/ reservation.status = "checked-out")
        /\ reservation.roomType = formData.roomType
        /\ Overlaps(Form_createTimeAwareDate(reservation.checkInDate, hotelSettings.checkInTime),
                    Form_createTimeAwareDate(reservation.checkOutDate, hotelSettings.checkOutTime),
                    newCheckIn, newCheckOut)
  IN  SelectSeq(reservations, Kept)

\* ReservationForm.tsx 108-129 and 191-212: the overlapping reservations
overlappingReservations(formData, initialData, newCheckIn, newCheckOut) ==
  LET Kept(reservation) ==
        /\ ~(initialData # <<>> /\ reservation.id = initialData[1].id)
        /\ ~(reservation.status = "cancelled" \/ reservation.status = "checked-out")
        /\ reservation.roomType = formData.roomType
        /\ Overlaps(Form_createTimeAwareDate(reservation.checkInDate, hotelSettings.checkInTime),
                    Form_createTimeAwareDate(reservation.checkOutDate, hotelSettings.checkOutTime),
                    newCheckIn, newCheckOut)
  IN  SelectSeq(reservations, Kept)

\* the pool without the generic reservations taken off
availableRoomsIgnoringGeneric(formData, initialData, newCheckIn, newCheckOut) ==
  LET overlapping == overlappingReservations(formData, initialData, newCheckIn, newCheckOut)
      specificRoomBookings ==
        { r.specificRoomId : r \in { x \in Range(overlapping) : x.specificRoomId # "" } }
  IN  SelectSeq(roomsOfType(formData.roomType),
                LAMBDA room : room.id \notin specificRoomBookings)

\* ReservationForm.tsx 131-152 and 214-232: pinned rooms leave the pool, each
\* generic reservation takes one more room off its end
availableRoomsForPeriod(formData, initialData, newCheckIn, newCheckOut) ==
  LET overlapping == overlappingReservations(formData, initialData, newCheckIn, newCheckOut)
      specificRoomBookings ==
        { r.specificRoomId : r \in { x \in Range(overlapping) : x.specificRoomId # "" } }
      genericBookingsCount ==
        Len(SelectSeq(overlapping, LAMBDA r : r.specificRoomId = ""))
      availableSpecificRooms ==
        SelectSeq(roomsOfType(formData.roomType),
                  LAMBDA room : room.id \notin specificRoomBookings)
      totalAvailableRooms == Max2(0, Len(availableSpecificRooms) - genericBookingsCount)
  IN  SubSeq(availableSpecificRooms, 1, totalAvailableRooms)

\* ReservationForm.tsx 87-153
getAvailableRooms(formData, initialData) ==
  IF formData.checkInDate = 0 \/ formData.checkOutDate = 0 \/ formData.roomType = ""
  THEN <<>>
  ELSE availableRoomsForPeriod(
         formData, initialData,
         Form_createTimeAwareDate(LocalMidnight(formData.checkInDate), hotelSettings.checkInTime),
         Form_createTimeAwareDate(LocalMidnight(formData.checkOutDate), hotelSettings.checkOutTime))

\* the loop stepping two days a turn: it would pass over feasible dates
RECURSIVE searchFromEveryOtherDay(_, _, _, _, _)
searchFromEveryOtherDay(formData, initialData, requestedDuration, searchDate, i) ==
  IF ~(i < maxSearchDays) THEN <<>>
  ELSE IF Len(availableRoomsForPeriod(
                formData, initialData,
                Form_createTimeAwareDate(searchDate, hotelSettings.checkInTime),
                Form_createTimeAwareDate(searchDate + requestedDuration,
                                         hotelSettings.checkOutTime))) > 0
       THEN <<searchDate>>
       ELSE searchFromEveryOtherDay(formData, initialData, requestedDuration,
                                    searchDate + 2 * MinutesPerDay, i + 1)

\* ReservationForm.tsx 183-240: the for loop; <<>> is null
RECURSIVE searchFrom(_, _, _, _, _)
searchFrom(formData, initialData, requestedDuration, searchDate, i) ==
  IF ~(i < maxSearchDays) THEN <<>>
  ELSE LET potentialCheckOutDate == searchDate + requestedDuration
           potentialCheckIn  == Form_createTimeAwareDate(searchDate, hotelSettings.checkInTime)
           potentialCheckOut == Form_createTimeAwareDate(potentialCheckOutDate, hotelSettings.checkOutTime)
       IN  IF Len(availableRoomsForPeriod(formData, initialData,
                                          potentialCheckIn, potentialCheckOut)) > 0
           THEN <<searchDate>>
           ELSE searchFrom(formData, initialData, requestedDuration,
                           searchDate + MinutesPerDay, i + 1)

\* the scan starting on the requested check-in date itself
searchStartAtCheckIn(formData) ==
  Max2(LocalMidnight(LocalDay(now)), LocalMidnight(formData.checkInDate))

\* ReservationForm.tsx 176-180: where the scan starts
searchStart(formData) ==
  Max2(LocalMidnight(LocalDay(now)),
       LocalMidnight(formData.checkInDate) + MinutesPerDay)

\* ReservationForm.tsx 156-243
getNextAvailableDateForRequestedDuration(formData, initialData) ==
  IF formData.checkInDate = 0 \/ formData.checkOutDate = 0 \/ formData.roomType = ""
  THEN <<>>
  ELSE LET requestedDuration ==
             LocalMidnight(formData.checkOutDate) - LocalMidnight(formData.checkInDate)
       IN  IF requestedDuration <= 0 THEN <<>>
           ELSE IF Len(roomsOfType(formData.roomType)) = 0 THEN <<>>
           ELSE searchFrom(formData, initialData, requestedDuration,
                           searchStart(formData), 0)

-----------------------------------------------------------------------------
(* Records and the store's transformations (hooks/useReservations.ts)      *)

\* useReservations.ts transformReservation: a row of the table as the app holds it
\* (reminder_date: <<>> for null, <<t>> for the instant t)
transformReservation(dbReservation) ==
  [ id                  |-> dbReservation.id,
    customerId          |-> dbReservation.customer_id,
    checkInDate         |-> UTCMidnight(dbReservation.check_in_date),
    checkOutDate        |-> UTCMidnight(dbReservation.check_out_date),
    roomType            |-> dbReservation.room_type,
    specificRoomId      |-> dbReservation.specific_room_id,
    status              |-> dbReservation.status,
    reminderSent        |-> dbReservation.reminder_sent,
    reminderDate        |-> dbReservation.reminder_date,
    cancellationComment |-> dbReservation.cancellation_comment ]

\* useReservations.ts transformToDbReservation
transformToDbReservation(reservation) ==
  [ id                   |-> reservation.id,
    customer_id          |-> reservation.customerId,
    check_in_date        |-> UTCDay(reservation.checkInDate),
    check_out_date       |-> UTCDay(reservation.checkOutDate),
    room_type            |-> reservation.roomType,
    specific_room_id     |-> reservation.specificRoomId,
    status               |-> reservation.status,
    reminder_sent        |-> reservation.reminderSent,
    reminder_date        |-> reservation.reminderDate,
    cancellation_comment |-> reservation.cancellationComment ]

\* .update(updateData).eq('id', id): the columns updateData names are overwritten
applyUpdate(row, updateData) ==
  [ col \in DOMAIN row |->
      IF col \in DOMAIN updateData THEN updateData[col] ELSE row[col] ]

\* setReservations(prev => prev.map(r => r.id === id ? updatedReservation : r))
replaceReservation(prev, updatedReservation) ==
  [ i \in 1..Len(prev) |->
      IF prev[i].id = updatedReservation.id THEN updatedReservation ELSE prev[i] ]

\* fetchReservations: data.map(transformReservation)
loadReservations(rows) == [ i \in 1..Len(rows) |-> transformReservation(rows[i]) ]

\* ReservationForm.tsx 30-35: the local calendar day of a Date
formatDateForInput(date) == LocalDay(date)

\* ReservationForm.tsx 37-46: the form's first state
initialFormData(initialData) ==
  IF initialData = <<>>
  THEN [ customerId |-> "", checkInDate |-> 0, checkOutDate |-> 0,
         roomType |-> "", specificRoomId |-> "" ]
  ELSE [ customerId     |-> initialData[1].customerId,
         checkInDate    |-> formatDateForInput(initialData[1].checkInDate),
         checkOutDate   |-> formatDateForInput(initialData[1].checkOutDate),
         roomType       |-> initialData[1].roomType,
         specificRoomId |-> initialData[1].specificRoomId ]

\* ReservationForm.tsx 277-291: the effect that auto-selects the only available
\* room and clears a selected room that is not available; one run of it
roomEffect(formData, initialData) ==
  LET availableRooms == getAvailableRooms(formData, initialData)
      ids == { availableRooms[i].id : i \in 1..Len(availableRooms) }
  IN  IF formData.checkInDate # 0 /\ formData.checkOutDate # 0 /\ formData.roomType # ""
      THEN IF Len(availableRooms) = 1 /\ formData.specificRoomId = ""
           THEN [formData EXCEPT !.specificRoomId = availableRooms[1].id]
           ELSE IF formData.specificRoomId # "" /\ formData.specificRoomId \notin ids
           THEN [formData EXCEPT !.specificRoomId = ""]
           ELSE formData
      ELSE formData

\* the effect runs again after each change it makes (specificRoomId is one of
\* its dependencies): at most twice before it settles
settleForm(formData, initialData) ==
  roomEffect(roomEffect(formData, initialData), initialData)

\* the submission without the comparison of the two dates
handleSubmitUnchecked(formData) ==
  << [ customerId     |-> formData.customerId,
       checkInDate    |-> LocalMidnight(formData.checkInDate),
       checkOutDate   |-> LocalMidnight(formData.checkOutDate),
       roomType       |-> formData.roomType,
       specificRoomId |-> formData.specificRoomId,
       status         |-> "confirmed" ] >>

\* ReservationForm.tsx 298-329; <<>> when the submission is rejected
handleSubmit(formData) ==
  LET checkInDate  == LocalMidnight(formData.checkInDate)
      checkOutDate == LocalMidnight(formData.checkOutDate)
  IN  IF checkOutDate <= checkInDate THEN <<>>
      ELSE << [ customerId     |-> formData.customerId,
                checkInDate    |-> checkInDate,
                checkOutDate   |-> checkOutDate,
                roomType       |-> formData.roomType,
                specificRoomId |-> formData.specificRoomId,
                status         |-> "confirmed" ] >>

\* ReservationForm.tsx 381-403 and 526-533: what the browser lets the operator
\* submit: every required field filled, check-in not before today (min),
\* check-out not before check-in (min)
canSubmit(formData) ==
  /\ formData.customerId # "" /\ formData.roomType # ""
  /\ formData.checkInDate # 0 /\ formData.checkOutDate # 0
  /\ formData.checkInDate >= LocalDay(now)
  /\ formData.checkOutDate >= formData.checkInDate

-----------------------------------------------------------------------------
(* Auto-cancellation (hooks/useAutoCancellation.ts)                        *)

\* useAutoCancellation.ts 42-43: check-in day is today and it is 11:00 or later
isCheckInOverdue(reservation) ==
  LET today           == LocalMidnight(LocalDay(now))
      cutoffTime      == today + CutoffMinutes
      checkInDateOnly == LocalMidnight(LocalDay(reservation.checkInDate))
  IN  checkInDateOnly = today /\ now >= cutoffTime

\* useAutoCancellation.ts 46
isStayOverdue(reservation) ==
  LET today            == LocalMidnight(LocalDay(now))
      checkOutDateOnly == LocalMidnight(LocalDay(reservation.checkOutDate))
  IN  checkOutDateOnly < today

\* the filter's test without its status line: every overdue reservation
isNoShowAnyStatus(reservation) ==
  isCheckInOverdue(reservation) \/ isStayOverdue(reservation)

\* the filter's test skipping cancelled reservations only
isNoShowUnlessCancelled(reservation) ==
  IF reservation.status = "cancelled" THEN FALSE
  ELSE isCheckInOverdue(reservation) \/ isStayOverdue(reservation)

\* useAutoCancellation.ts 22-49: the filter's test
isNoShow(reservation) ==
  IF reservation.status # "confirmed" THEN FALSE
  ELSE isCheckInOverdue(reservation) \/ isStayOverdue(reservation)

\* Date.prototype.toLocaleDateString(): the local calendar date of an instant,
\* day d of the model written as the d-th of January, day 0 as the eve
DateStrings ==
  << "12/31/2025", "1/1/2026", "1/2/2026", "1/3/2026", "1/4/2026", "1/5/2026",
     "1/6/2026", "1/7/2026", "1/8/2026", "1/9/2026" >>

toLocaleDateString(date) == DateStrings[LocalDay(date) + 1]

\* useAutoCancellation.ts 65-70
cancellationCommentFor(reservation) ==
  IF isStayOverdue(reservation)
  THEN "Automatically cancelled - Guest did not check in by departure date ("
         \o toLocaleDateString(reservation.checkOutDate) \o ")"
  ELSE "Automatically cancelled - Guest did not check in by 11:00 AM on "
         \o toLocaleDateString(reservation.checkInDate)

\* useReservations.ts 289-304: the call updateReservationStatus sends
statusRequest(id, status, comment, by) ==
  [ fn |-> "updateReservationStatus", id |-> id, by |-> by,
    updateData |-> IF status = "cancelled" /\ comment # ""
                   THEN [status |-> status, cancellation_comment |-> comment]
                   ELSE [status |-> status] ]

\* useAutoCancellation.ts 52-78: one onUpdateStatus call per selected reservation
noShowRequests(snapshot) ==
  LET noShowReservations == SelectSeq(snapshot, isNoShow)
  IN  [ i \in 1..Len(noShowReservations) |->
          statusRequest(noShowReservations[i].id, "cancelled",
                        cancellationCommentFor(noShowReservations[i]), "sweep") ]

-----------------------------------------------------------------------------
(* The operator's actions on reservations (App.tsx)                        *)

NoModal ==
  /\ editingReservation = <<>> /\ pendingReservationData = <<>>
  /\ ~showOverbookingWarning /\ reservationToCancel = <<>>

RoomIds == { hotelSettings.rooms[i].id : i \in 1..Len(hotelSettings.rooms) }

\* what the form can hold when the operator presses the submit button
FormInputsOver(days, initialData) ==
  { fd \in [ customerId : CustomerIds, checkInDate : days, checkOutDate : days,
             roomType : RoomTypeIds, specificRoomId : RoomIds \cup {""} ] :
      canSubmit(fd) /\ settleForm(fd, initialData) = fd }

FormInputs(initialData) == FormInputsOver(Days, initialData)

\* generateReservationId(): an id no reservation and no pending insert has
newReservationId ==
  1 + Len(db) + Cardinality({ i \in 1..Len(requests) : requests[i].fn = "createReservation" })
    + Cardinality({ i \in 1..Len(responses) : responses[i].fn = "createReservation" })

CallsOutstanding == Len(requests) + Len(responses)

\* App.tsx 296-311 with useReservations.ts 210-217: the insert call
createReservation(reservationData) ==
  LET newReservation ==
        [ id                  |-> newReservationId,
          customerId          |-> reservationData.customerId,
          checkInDate         |-> reservationData.checkInDate,
          checkOutDate        |-> reservationData.checkOutDate,
          roomType            |-> reservationData.roomType,
          specificRoomId      |-> reservationData.specificRoomId,
          status              |-> reservationData.status,
          reminderSent        |-> FALSE,
          reminderDate        |-> <<>>,
          cancellationComment |-> "" ]
  IN  [ fn |-> "createReservation", id |-> newReservation.id, by |-> "operator",
        updateData |-> transformToDbReservation(newReservation) ]

\* App.tsx 346-349
openReservations(customerId) ==
  SelectSeq(reservations,
            LAMBDA r : r.customerId = customerId
                       /\ (r.status = "confirmed" \/ r.status = "checked-in"))

\* the attempt keeping the turned-down reservation for a later confirmation
handleCreateReservationAttemptKeepingPending(reservationData) ==
  LET overbooked == checkRoomAvailability(reservationData)
  IN  IF Len(overbooked) > 0
      THEN /\ overbookedDates' = overbooked
           /\ showOverbookingWarning' = TRUE
           /\ pendingReservationData' = <<reservationData>>
           /\ UNCHANGED requests
      ELSE IF Len(openReservations(reservationData.customerId)) > 0
      THEN /\ pendingReservationData' = <<reservationData>>
           /\ UNCHANGED <<overbookedDates, showOverbookingWarning, requests>>
      ELSE /\ requests' = Append(requests, createReservation(reservationData))
           /\ UNCHANGED <<overbookedDates, showOverbookingWarning,
                          pendingReservationData>>

\* App.tsx 330-361
handleCreateReservationAttempt(reservationData) ==
  LET overbooked == checkRoomAvailability(reservationData)
  IN  IF Len(overbooked) > 0
      THEN /\ overbookedDates' = overbooked
           /\ showOverbookingWarning' = TRUE
           /\ UNCHANGED <<pendingReservationData, requests>>
      ELSE IF Len(openReservations(reservationData.customerId)) > 0
      THEN /\ pendingReservationData' = <<reservationData>>
           /\ UNCHANGED <<overbookedDates, showOverbookingWarning, requests>>
      ELSE /\ requests' = Append(requests, createReservation(reservationData))
           /\ UNCHANGED <<overbookedDates, showOverbookingWarning,
                          pendingReservationData>>

\* the submit button of the new-reservation form: ReservationForm.tsx handleSubmit,
\* then App.tsx 999-1004
SubmitNewReservation ==
  /\ NoModal
  /\ newReservationId <= MaxRes /\ CallsOutstanding < MaxRequests
  /\ \E fd \in FormInputs(<<>>) :
       LET submitted == handleSubmit(fd)
       IN  IF submitted = <<>>
           THEN UNCHANGED <<overbookedDates, showOverbookingWarning,
                            pendingReservationData, requests>>
           ELSE handleCreateReservationAttempt(submitted[1])
  /\ UNCHANGED <<reminderFor, todayUTC, overdueCheckOuts, reservationsError, mail, tz,
                 hotelSettings, now, db, reservations, responses, editingReservation,
                 reservationToCancel, form, sweepLog>>

\* App.tsx 363-371: "Proceed Anyway"
confirmReservationCreation ==
  /\ pendingReservationData # <<>>
  /\ CallsOutstanding < MaxRequests
  /\ requests' = Append(requests, createReservation(pendingReservationData[1]))
  /\ pendingReservationData' = <<>>
  /\ UNCHANGED <<reminderFor, todayUTC, overdueCheckOuts, reservationsError, mail, tz,
                 hotelSettings, now, db, reservations, responses, editingReservation,
                 overbookedDates, showOverbookingWarning, reservationToCancel, form,
                 sweepLog>>

\* App.tsx 373-380
cancelReservationCreation ==
  /\ pendingReservationData # <<>>
  /\ pendingReservationData' = <<>>
  /\ showOverbookingWarning' = FALSE
  /\ overbookedDates' = <<>>
  /\ UNCHANGED <<reminderFor, todayUTC, overdueCheckOuts, reservationsError, mail, tz,
                 hotelSettings, now, db, reservations, requests, responses,
                 editingReservation, reservationToCancel, form, sweepLog>>

\* App.tsx 1148-1151 and 1189-1192: closing the overbooking warning
closeOverbookingWarning ==
  /\ showOverbookingWarning
  /\ showOverbookingWarning' = FALSE
  /\ overbookedDates' = <<>>
  /\ UNCHANGED <<reminderFor, todayUTC, overdueCheckOuts, reservationsError, mail, tz,
                 hotelSettings, now, db, reservations, requests, responses,
                 editingReservation, pendingReservationData, reservationToCancel, form,
                 sweepLog>>

\* ReservationForm.tsx 802-808 with App.tsx 843: a click on a row of the list
onEdit ==
  /\ NoModal
  /\ \E i \in 1..Len(reservations) : editingReservation' = <<reservations[i]>>
  /\ UNCHANGED <<reminderFor, todayUTC, overdueCheckOuts, reservationsError, mail, tz,
                 hotelSettings, now, db, reservations, requests, responses,
                 pendingReservationData, overbookedDates, showOverbookingWarning,
                 reservationToCancel, form, sweepLog>>

\* App.tsx 957-960 and 970-973
closeEdit ==
  /\ editingReservation # <<>>
  /\ editingReservation' = <<>>
  /\ UNCHANGED <<reminderFor, todayUTC, overdueCheckOuts, reservationsError, mail, tz,
                 hotelSettings, now, db, reservations, requests, responses,
                 pendingReservationData, overbookedDates, showOverbookingWarning,
                 reservationToCancel, form, sweepLog>>

\* useReservations.ts 246: if (reservationData.reminderDate !== undefined)
\* updateData.reminder_date = ...; an undefined date (<<>>) names no column
withReminderDate(updateData, reminderDate) ==
  IF reminderDate = <<>> THEN updateData
  ELSE [ col \in DOMAIN updateData \cup {"reminder_date"} |->
           IF col = "reminder_date" THEN reminderDate ELSE updateData[col] ]

\* App.tsx 313-321 with useReservations.ts 232-256: the update call of an edit
updateReservation(reservationData) ==
  [ fn |-> "updateReservation", id |-> editingReservation[1].id, by |-> "operator",
    updateData |->
      withReminderDate(
        [ customer_id      |-> reservationData.customerId,
          check_in_date    |-> UTCDay(reservationData.checkInDate),
          check_out_date   |-> UTCDay(reservationData.checkOutDate),
          room_type        |-> reservationData.roomType,
          specific_room_id |-> reservationData.specificRoomId,
          status           |-> reservationData.status,
          reminder_sent    |-> editingReservation[1].reminderSent ],
        editingReservation[1].reminderDate) ]

\* the submit button of the edit form: handleSubmit, then App.tsx updateReservation
SubmitEdit ==
  /\ editingReservation # <<>>
  /\ CallsOutstanding < MaxRequests
  /\ \E fd \in FormInputs(editingReservation) :
       LET submitted == handleSubmit(fd)
       IN  IF submitted = <<>>
           THEN UNCHANGED requests
           ELSE requests' = Append(requests, updateReservation(submitted[1]))
  /\ UNCHANGED <<reminderFor, todayUTC, overdueCheckOuts, reservationsError, mail, tz,
                 hotelSettings, now, db, reservations, responses, editingReservation,
                 pendingReservationData, overbookedDates, showOverbookingWarning,
                 reservationToCancel, form, sweepLog>>

-----------------------------------------------------------------------------
(* Status actions of the reservation list, the sweep, the store            *)

\* ReservationForm.tsx 739-750: the Check In button of a confirmed row
ClickCheckIn ==
  /\ NoModal /\ CallsOutstanding < MaxRequests
  /\ \E i \in 1..Len(reservations) :
       /\ reservations[i].status = "confirmed"
       /\ requests' = Append(requests,
                             statusRequest(reservations[i].id, "checked-in", "", "operator"))
  /\ UNCHANGED <<reminderFor, todayUTC, overdueCheckOuts, reservationsError, mail, tz,
                 hotelSettings, now, db, reservations, responses, editingReservation,
                 pendingReservationData, overbookedDates, showOverbookingWarning,
                 reservationToCancel, form, sweepLog>>

\* ReservationForm.tsx 751-762: the Check Out button of a checked-in row
ClickCheckOut ==
  /\ NoModal /\ CallsOutstanding < MaxRequests
  /\ \E i \in 1..Len(reservations) :
       /\ reservations[i].status = "checked-in"
       /\ requests' = Append(requests,
                             statusRequest(reservations[i].id, "checked-out", "", "operator"))
  /\ UNCHANGED <<reminderFor, todayUTC, overdueCheckOuts, reservationsError, mail, tz,
                 hotelSettings, now, db, reservations, responses, editingReservation,
                 pendingReservationData, overbookedDates, showOverbookingWarning,
                 reservationToCancel, form, sweepLog>>

\* ReservationForm.tsx 776-787: the Cancel button opens the cancellation modal
ClickCancel ==
  /\ NoModal
  /\ \E i \in 1..Len(reservations) :
       /\ reservations[i].status = "confirmed" \/ reservations[i].status = "checked-in"
       /\ reservationToCancel' = <<reservations[i]>>
  /\ UNCHANGED <<reminderFor, todayUTC, overdueCheckOuts, reservationsError, mail, tz,
                 hotelSettings, now, db, reservations, requests, responses,
                 editingReservation, pendingReservationData, overbookedDates,
                 showOverbookingWarning, form, sweepLog>>

\* ReservationForm.tsx 610-616: Confirm Cancellation, with or without a reason
handleCancelReservation ==
  /\ reservationToCancel # <<>>
  /\ CallsOutstanding < MaxRequests
  /\ \E comment \in {"", "Guest request"} :
       requests' = Append(requests,
                          statusRequest(reservationToCancel[1].id, "cancelled",
                                        comment, "operator"))
  /\ reservationToCancel' = <<>>
  /\ UNCHANGED <<reminderFor, todayUTC, overdueCheckOuts, reservationsError, mail, tz,
                 hotelSettings, now, db, reservations, responses, editingReservation,
                 pendingReservationData, overbookedDates, showOverbookingWarning, form,
                 sweepLog>>

\* ReservationForm.tsx 618-621: Keep Reservation
closeCancellationModal ==
  /\ reservationToCancel # <<>>
  /\ reservationToCancel' = <<>>
  /\ UNCHANGED <<reminderFor, todayUTC, overdueCheckOuts, reservationsError, mail, tz,
                 hotelSettings, now, db, reservations, requests, responses,
                 editingReservation, pendingReservationData, overbookedDates,
                 showOverbookingWarning, form, sweepLog>>

\* useAutoCancellation.ts 11-83: one run of the sweep, on the snapshot
checkForNoShows ==
  LET calls == noShowRequests(reservations)
  IN  /\ CallsOutstanding + Len(calls) <= MaxRequests
      /\ requests' = requests \o calls
      /\ sweepLog' = [ ran |-> TRUE, at |-> now,
                       ids |-> { calls[i].id : i \in 1..Len(calls) } ]
      /\ UNCHANGED <<reminderFor, todayUTC, overdueCheckOuts, reservationsError, mail, tz,
                     hotelSettings, now, db, reservations, responses,
                     editingReservation, pendingReservationData, overbookedDates,
                     showOverbookingWarning, reservationToCancel, form>>

RemoveAt(s, i) == SubSeq(s, 1, i - 1) \o SubSeq(s, i + 1, Len(s))

\* the table after the store has executed a call: .insert([row]) or
\* .update(updateData).eq('id', id)
storeExecute(rows, req) ==
  IF req.fn = "createReservation" THEN Append(rows, req.updateData)
  ELSE [ i \in 1..Len(rows) |->
           IF rows[i].id = req.id THEN applyUpdate(rows[i], req.updateData)
           ELSE rows[i] ]

\* .select().single(): the row the store answers with
storeAnswer(rows, req) ==
  LET hit == SelectSeq(rows, LAMBDA row : row.id = req.id)
  IN  [ fn |-> req.fn, id |-> req.id, by |-> req.by, data |-> hit[1] ]

\* the store executes one of the calls in flight and answers
StoreExecutes ==
  \E i \in 1..Len(requests) :
    /\ db' = storeExecute(db, requests[i])
    /\ responses' = Append(responses, storeAnswer(db', requests[i]))
    /\ requests' = RemoveAt(requests, i)
    /\ UNCHANGED <<reminderFor, todayUTC, overdueCheckOuts, reservationsError, mail, tz,
                   hotelSettings, now, reservations, editingReservation,
                   pendingReservationData, overbookedDates, showOverbookingWarning,
                   reservationToCancel, form, sweepLog>>

\* App.tsx 137-161: the test of the dashboard's list, at the instant of the
\* render that computes it
isOverdueCheckOut(reservation) ==
  LET currentTime           == LocalMinutes(now)
      checkOutTimeInMinutes == ParseTime(hotelSettings.checkOutTime)
      today                 == LocalMidnight(LocalDay(now))
      checkOutDate          == LocalMidnight(LocalDay(reservation.checkOutDate))
  IN  IF reservation.status # "checked-in" THEN FALSE
      ELSE IF checkOutDate < today THEN TRUE
      ELSE checkOutDate = today /\ currentTime > checkOutTimeInMinutes

\* useMemo(..., [reservations, hotelSettings.checkOutTime]): computed when the
\* snapshot is replaced, and kept until it is replaced again
overdueCheckOutsMemo(snapshot) == SelectSeq(snapshot, isOverdueCheckOut)

\* App.tsx 514-532: the test of the reservation list's 'overdue' filter, on
\* the render at the current instant
isOverdueFiltered(reservation) ==
  LET checkOutDateUTC       == UTCMidnight(UTCDay(reservation.checkOutDate))
      currentTime           == LocalMinutes(now)
      checkOutTimeInMinutes == ParseTime(hotelSettings.checkOutTime)
  IN  /\ reservation.status = "checked-in"
      /\ \/ checkOutDateUTC < todayUTC
         \/ checkOutDateUTC = todayUTC /\ currentTime > checkOutTimeInMinutes

\* App.tsx 495-532 with currentReservationFilter = { dateType: 'overdue' }
filteredReservations == SelectSeq(reservations, isOverdueFiltered)

\* App.tsx 67-70 and 137-161: the memos of the first render on the loaded snapshot
InitMemos ==
  /\ todayUTC = UTCMidnight(UTCDay(now))
  /\ overdueCheckOuts = overdueCheckOutsMemo(reservations)

\* useReservations.ts 221-222, 260-261, 308-309: the awaited answer arrives and
\* setReservations runs; App.tsx 322-323 then closes the edit modal
AnswerArrives ==
  \E i \in 1..Len(responses) :
    LET answer == responses[i]
        row    == transformReservation(answer.data)
    IN  /\ reservations' = IF answer.fn = "createReservation"
                           THEN <<row>> \o reservations
                           ELSE replaceReservation(reservations, row)
        /\ editingReservation' = IF answer.fn = "updateReservation" /\ answer.by = "operator"
                                 THEN <<>> ELSE editingReservation
        /\ responses' = RemoveAt(responses, i)
        /\ overdueCheckOuts' = overdueCheckOutsMemo(reservations')
        /\ UNCHANGED <<reminderFor, todayUTC, reservationsError, mail, tz, hotelSettings, now, db,
                       requests, pendingReservationData, overbookedDates,
                       showOverbookingWarning, reservationToCancel, form, sweepLog>>

\* useReservations.ts 305-313 with App.tsx 171-178: the store answers a status
\* call with an error; the hook records the message and throws, App's catch
\* logs it and shows an alert.  The table and the snapshot are untouched.
RejectionArrives ==
  \E i \in 1..Len(requests) :
    /\ requests[i].fn = "updateReservationStatus"
    /\ requests' = RemoveAt(requests, i)
    /\ reservationsError' = "Failed to update reservation status"
    /\ UNCHANGED <<reminderFor, todayUTC, overdueCheckOuts, mail, tz, hotelSettings, now, db,
                   reservations, responses, editingReservation, pendingReservationData,
                   overbookedDates, showOverbookingWarning, reservationToCancel, form,
                   sweepLog>>

\* App.tsx 621-643: what App renders once the data is loaded
appScreen == IF reservationsError # "" THEN "Database Connection Error" ELSE "app"

\* sweepLog records the sweep that ran at the current clock reading, if any
NoSweep == [ ran |-> FALSE, at |-> 0, ids |-> {} ]

\* clock readings the runs use: 10:59 and 11:00 local time of each day
ClockReadings ==
  { LocalMidnight(d) + m : d \in StayDays, m \in {CutoffMinutes - 1, CutoffMinutes} }

\* time passes
Tick ==
  /\ \E t \in ClockReadings : t > now /\ now' = t
  /\ sweepLog' = NoSweep
  /\ UNCHANGED <<reminderFor, todayUTC, overdueCheckOuts, reservationsError, mail, tz,
                 hotelSettings, db, reservations, requests, responses,
                 editingReservation, pendingReservationData, overbookedDates,
                 showOverbookingWarning, reservationToCancel, form>>

-----------------------------------------------------------------------------
(* The notifier (utils/emailService.ts sendEmail)                          *)

\* import.meta.env.VITE_SUPABASE_URL: set, or missing from the build
SupabaseUrls == {"", "https://project.supabase.co"}
Recipients == {"guest@example.com", "other@example.com"}
FromEmails == {"", "desk@staypalms.example"}
EmailTemplates ==
  { [ subject |-> "Reservation Reminder", html |-> "<p>reminder</p>", text |-> "reminder" ],
    [ subject |-> "Reservation Cancelled", html |-> "<p>cancelled</p>", text |-> "cancelled" ] }

\* bodies the send-email function or a gateway in front of it answers with
ErrorBodies == { "{\"error\":\"Invalid recipient\"}", "{\"details\":\"Rate limited\"}",
                 "{}", "null", "Bad Gateway", "" }
OkBodies == { "{\"id\":\"m1\"}", "<html>" }

NoResponse == [ ok |-> FALSE, status |-> 0, body |-> "" ]
Responses ==
  { [ ok |-> FALSE, status |-> s, body |-> b ] : s \in {400, 502}, b \in ErrorBodies }
    \cup { [ ok |-> TRUE, status |-> 200, body |-> b ] : b \in OkBodies }

\* JSON.parse on the bodies above; a missing property reads as "", which ||
\* treats as it treats undefined
JSONparse(text) ==
  CASE text = "{\"error\":\"Invalid recipient\"}" ->
         [ threw |-> FALSE, isNull |-> FALSE, error |-> "Invalid recipient", details |-> "" ]
    [] text = "{\"details\":\"Rate limited\"}" ->
         [ threw |-> FALSE, isNull |-> FALSE, error |-> "", details |-> "Rate limited" ]
    [] text = "{}" ->
         [ threw |-> FALSE, isNull |-> FALSE, error |-> "", details |-> "" ]
    [] text = "{\"id\":\"m1\"}" ->
         [ threw |-> FALSE, isNull |-> FALSE, error |-> "", details |-> "" ]
    [] text = "null" ->
         [ threw |-> FALSE, isNull |-> TRUE, error |-> "", details |-> "" ]
    [] OTHER ->
         [ threw |-> TRUE, isNull |-> FALSE, error |-> "", details |-> "" ]

\* how a block of code ends: with a value, or with a thrown Error
Return(value) == [ kind |-> "return", value |-> value, message |-> "" ]
Throw(message) == [ kind |-> "throw", value |-> <<>>, message |-> message ]

\* emailService.ts 258-271: the block under if (!response.ok), which always throws
notOkBlock(errorText) ==
  LET parsed    == JSONparse(errorText)
      errorData == IF parsed.threw
                   THEN [ isNull |-> FALSE, error |-> errorText, details |-> "" ]
                   ELSE [ isNull |-> parsed.isNull, error |-> parsed.error,
                          details |-> parsed.details ]
  IN  IF errorData.isNull
      THEN Throw("Cannot read properties of null (reading 'error')")
      ELSE Throw(IF errorData.error # "" THEN errorData.error
                 ELSE IF errorData.details # "" THEN errorData.details
                 ELSE IF errorText # "" THEN errorText
                 ELSE "Failed to send email")

\* emailService.ts 273-275: response.json(), then return { success: true }
okBlock(body) ==
  IF JSONparse(body).threw THEN Throw("Unexpected token in JSON")
  ELSE Return([ success |-> TRUE ])

\* an async function whose body has no try: a throw rejects its promise
settleWithoutCatch(completion) ==
  IF completion.kind = "throw"
  THEN [ state |-> "rejected", value |-> <<completion.message>> ]
  ELSE [ state |-> "fulfilled", value |-> <<completion.value>> ]

\* emailService.ts 224 and 276-282: the try around the whole body and its catch
settle(completion) ==
  IF completion.kind = "throw"
  THEN [ state |-> "fulfilled",
         value |-> << [ success |-> FALSE, error |-> completion.message ] >> ]
  ELSE [ state |-> "fulfilled", value |-> <<completion.value>> ]

Pending == [ state |-> "pending", value |-> <<>> ]

NoMail == [ pc |-> "idle", supabaseUrl |-> "", to |-> "", fromEmail |-> "",
            template |-> <<>>, response |-> NoResponse, failure |-> "",
            promise |-> Pending ]

\* emailService.ts 223-253: sendEmail(to, template, fromEmail) up to its first await
sendEmailCall(supabaseUrl, to, template, fromEmail) ==
  LET call == [ NoMail EXCEPT !.supabaseUrl = supabaseUrl, !.to = to,
                              !.fromEmail = fromEmail, !.template = <<template>> ]
  IN  IF supabaseUrl = ""
      THEN [ call EXCEPT !.pc = "settled", !.failure = "no backend URL",
               !.promise = settle(Throw("Supabase URL not configured")) ]
      ELSE [ call EXCEPT !.pc = "fetch" ]

\* emailService.ts 223-253: the call, up to the fetch
sendEmail ==
  /\ mail.pc = "idle"
  /\ \E supabaseUrl \in SupabaseUrls, to \in Recipients,
        template \in EmailTemplates, fromEmail \in FromEmails :
       mail' = sendEmailCall(supabaseUrl, to, template, fromEmail)
  /\ UNCHANGED <<reminderFor, todayUTC, overdueCheckOuts, reservationsError, tz, hotelSettings, now,
                 db, reservations, requests, responses, editingReservation,
                 pendingReservationData, overbookedDates, showOverbookingWarning,
                 reservationToCancel, form, sweepLog>>

\* emailService.ts 244-258 and 273: the fetch rejects, or a response arrives
fetchSettles ==
  /\ mail.pc = "fetch"
  /\ \/ mail' = [ mail EXCEPT !.pc = "settled", !.failure = "network",
                    !.promise = settle(Throw("Failed to fetch")) ]
     \/ \E response \in Responses :
          mail' = [ mail EXCEPT !.response = response,
                      !.pc = IF response.ok THEN "json" ELSE "text" ]
  /\ UNCHANGED <<reminderFor, todayUTC, overdueCheckOuts, reservationsError, tz, hotelSettings, now,
                 db, reservations, requests, responses, editingReservation,
                 pendingReservationData, overbookedDates, showOverbookingWarning,
                 reservationToCancel, form, sweepLog>>

\* emailService.ts 259-271: response.text() settles
textArrives ==
  /\ mail.pc = "text"
  /\ \/ mail' = [ mail EXCEPT !.pc = "settled", !.failure = "network",
                    !.promise = settle(Throw("Failed to fetch")) ]
     \/ mail' = [ mail EXCEPT !.pc = "settled", !.failure = "response not OK",
                    !.promise = settle(notOkBlock(mail.response.body)) ]
  /\ UNCHANGED <<reminderFor, todayUTC, overdueCheckOuts, reservationsError, tz, hotelSettings, now,
                 db, reservations, requests, responses, editingReservation,
                 pendingReservationData, overbookedDates, showOverbookingWarning,
                 reservationToCancel, form, sweepLog>>

\* emailService.ts 273-275: response.json() settles
jsonArrives ==
  /\ mail.pc = "json"
  /\ \/ mail' = [ mail EXCEPT !.pc = "settled", !.failure = "network",
                    !.promise = settle(Throw("Failed to fetch")) ]
     \/ mail' = [ mail EXCEPT !.pc = "settled",
                    !.failure = IF JSONparse(mail.response.body).threw
                                THEN "parsing" ELSE "",
                    !.promise = settle(okBlock(mail.response.body)) ]
  /\ UNCHANGED <<reminderFor, todayUTC, overdueCheckOuts, reservationsError, tz, hotelSettings, now,
                 db, reservations, requests, responses, editingReservation,
                 pendingReservationData, overbookedDates, showOverbookingWarning,
                 reservationToCancel, form, sweepLog>>

-----------------------------------------------------------------------------
(* Specifications                                                          *)

\* the state every run starts from, but for the table and the snapshot
InitApp(timePairs) ==
  /\ tz \in TzOffsets
  /\ \E times \in timePairs :
       hotelSettings = [ checkInTime |-> times[1], checkOutTime |-> times[2],
                         rooms |-> DefaultRooms ]
  /\ now = LocalMidnight(FirstDay) + CutoffMinutes - 1
  /\ requests = <<>> /\ responses = <<>>
  /\ editingReservation = <<>> /\ pendingReservationData = <<>>
  /\ overbookedDates = <<>> /\ showOverbookingWarning = FALSE
  /\ reservationToCancel = <<>> /\ form = <<>>
  /\ sweepLog = NoSweep
  /\ mail = NoMail
  /\ reminderFor = <<>>
  /\ reservationsError = ""

\* Booking histories of one operator, from an empty table.
Init ==
  /\ InitApp({DefaultTimes})
  /\ db = <<>>
  /\ reservations = loadReservations(db)
  /\ InitMemos

\* the operator waits for the store's answer before the next action
Idle == CallsOutstanding = 0

Next ==
  \/ Idle /\ SubmitNewReservation
  \/ Idle /\ confirmReservationCreation
  \/ Idle /\ cancelReservationCreation
  \/ Idle /\ closeOverbookingWarning
  \/ Idle /\ onEdit
  \/ Idle /\ closeEdit
  \/ Idle /\ SubmitEdit
  \/ Idle /\ ClickCheckIn
  \/ Idle /\ ClickCheckOut
  \/ Idle /\ ClickCancel
  \/ Idle /\ handleCancelReservation
  \/ Idle /\ closeCancellationModal
  \/ StoreExecutes
  \/ AnswerArrives

Spec == Init /\ [][Next]_vars

\* Status actions and sweeps over a loaded table, answers arriving late.
\* The rows fetchReservations finds: generic standard-room stays.
StatusRows(statuses) ==
  { [ id |-> 0, customer_id |-> "c1", check_in_date |-> d[1], check_out_date |-> d[2],
      room_type |-> "standard", specific_room_id |-> "", status |-> st,
      reminder_sent |-> FALSE, reminder_date |-> <<>>,
      cancellation_comment |-> "" ] :
    d \in { p \in StayDays \X StayDays : p[1] < p[2] },
    st \in statuses }

\* tables of 1..maxRows rows, the ids 1, 2, ... given in order
Tables(rows, maxRows) ==
  UNION { { [ i \in 1..n |-> [ t[i] EXCEPT !.id = i ] ] : t \in [1..n -> rows] } :
          n \in 1..maxRows }

InitStatus ==
  /\ InitApp({DefaultTimes})
  /\ db \in Tables(StatusRows({"confirmed"}), MaxStatusRows)
  /\ reservations = loadReservations(db)
  /\ InitMemos

NextStatus ==
  \/ ClickCheckIn
  \/ ClickCheckOut
  \/ ClickCancel
  \/ handleCancelReservation
  \/ closeCancellationModal
  \/ checkForNoShows
  \/ StoreExecutes
  \/ AnswerArrives
  \/ Tick

SpecStatus == InitStatus /\ [][NextStatus]_vars

\* The sweep alone, over tables of every status.
InitSweep ==
  /\ InitApp({DefaultTimes})
  /\ db \in Tables(StatusRows(Statuses), MaxRes)
  /\ reservations = loadReservations(db)
  /\ InitMemos

NextSweep ==
  \/ checkForNoShows
  \/ StoreExecutes
  \/ AnswerArrives
  \/ Tick

SpecSweep == InitSweep /\ [][NextSweep]_vars

\* The reservation form over a loaded table, in every zone and for every
\* pair of hotel times.  Rows name a room of their type or none.
AvailRows ==
  { [ id |-> 0, customer_id |-> "c1", check_in_date |-> d[1], check_out_date |-> d[2],
      room_type |-> rm[1], specific_room_id |-> rm[2], status |-> st,
      reminder_sent |-> FALSE, reminder_date |-> <<>>,
      cancellation_comment |-> "" ] :
    d \in { p \in StayDays \X StayDays : p[1] < p[2] },
    rm \in { <<"standard", "">>, <<"standard", "1">>, <<"suite", "5">> },
    st \in {"confirmed", "cancelled"} }

InitAvail ==
  /\ InitApp(TimePairs)
  /\ db \in Tables(AvailRows, MaxRes)
  /\ reservations = loadReservations(db)
  /\ InitMemos

\* ReservationForm.tsx 37-46, 277-291 and the inputs' onChange handlers: the
\* operator opens the new-reservation form, or the edit form of a reservation,
\* and fills it in
setFormData ==
  /\ form = <<>>
  /\ \E initialData \in {<<>>} \cup { <<reservations[i]>> : i \in 1..Len(reservations) } :
       /\ editingReservation' = initialData
       /\ \E fd \in FormInputsOver(StayDays, initialData) : form' = <<fd>>
  /\ UNCHANGED <<reminderFor, todayUTC, overdueCheckOuts, reservationsError, mail, tz,
                 hotelSettings, now, db, reservations, requests, responses,
                 pendingReservationData, overbookedDates, showOverbookingWarning,
                 reservationToCancel, sweepLog>>

\* ReservationForm.tsx 535-543 (onCancel) or a change of tab: the form unmounts
closeForm ==
  /\ form # <<>>
  /\ form' = <<>>
  /\ editingReservation' = <<>>
  /\ UNCHANGED <<reminderFor, todayUTC, overdueCheckOuts, reservationsError, mail, tz,
                 hotelSettings, now, db, reservations, requests, responses,
                 pendingReservationData, overbookedDates, showOverbookingWarning,
                 reservationToCancel, sweepLog>>

\* the edits of the roster followed: room 1 becomes a suite, or goes out of
\* service, or the only suite goes out of service
RoomEdits ==
  { [ id |-> "1", roomTypeId |-> "suite",    isActive |-> TRUE  ],
    [ id |-> "1", roomTypeId |-> "standard", isActive |-> FALSE ],
    [ id |-> "5", roomTypeId |-> "suite",    isActive |-> FALSE ] }

\* EmailService.tsx 359-366: settings.rooms.map(room => room.id === editingRoom
\* ? { ...room, ...roomFormData } : room), then onUpdateSettings (App.tsx 902-907)
saveRoom ==
  /\ form = <<>>
  /\ hotelSettings.rooms = DefaultRooms
  /\ \E roomFormData \in RoomEdits :
       hotelSettings' =
         [ hotelSettings EXCEPT !.rooms =
             [ i \in 1..Len(hotelSettings.rooms) |->
                 IF hotelSettings.rooms[i].id = roomFormData.id
                 THEN roomFormData ELSE hotelSettings.rooms[i] ] ]
  /\ UNCHANGED <<reminderFor, todayUTC, overdueCheckOuts, reservationsError, mail, tz, now, db,
                 reservations, requests, responses, editingReservation,
                 pendingReservationData, overbookedDates, showOverbookingWarning,
                 reservationToCancel, form, sweepLog>>

NextAvail ==
  \/ setFormData
  \/ closeForm
  \/ saveRoom

SpecAvail == InitAvail /\ [][NextAvail]_vars

-----------------------------------------------------------------------------
(* Properties of the availability check and the reservation form           *)

ActiveStatuses == {"confirmed", "checked-in"}

TerminalStatuses == {"cancelled", "checked-out"}

ScanAhead == 4       \* start dates examined after the scan's starting bound

\* the number of active rooms of a type
activeRooms(roomType) ==
  Cardinality({ i \in 1..Len(hotelSettings.rooms) :
                  /\ hotelSettings.rooms[i].roomTypeId = roomType
                  /\ hotelSettings.rooms[i].isActive })

\* the calendar nights a reservation is stored with
storedNights(reservation) ==
  UTCDay(reservation.checkInDate)..(UTCDay(reservation.checkOutDate) - 1)

\* the reservations of a snapshot that hold a room of the type on the night
occupying(snapshot, roomType, night) ==
  { i \in 1..Len(snapshot) :
      /\ snapshot[i].roomType = roomType
      /\ snapshot[i].status \in ActiveStatuses
      /\ night \in storedNights(snapshot[i]) }

\* the new-reservation form holds a booking handleSubmit lets through
candidateInForm ==
  form # <<>> /\ editingReservation = <<>> /\ handleSubmit(form[1]) # <<>>

\* C1: when checkRoomAvailability returns no night for a candidate booking, then
\* with the booking added to the same snapshot every night of its stay has at
\* most as many confirmed or checked-in reservations of its type as the type
\* has active rooms.
C1_AdmittedBookingFits ==
  candidateInForm =>
    LET B == handleSubmit(form[1])[1]
    IN  checkRoomAvailability(B) = <<>> =>
          \A night \in storedNights(B) :
            Cardinality(occupying(Append(reservations, B), B.roomType, night))
              <= activeRooms(B.roomType)

\* a booking is admitted next to a reservation of its type on one of its nights
C1_Witness ==
  /\ candidateInForm
  /\ LET B == handleSubmit(form[1])[1]
     IN  /\ checkRoomAvailability(B) = <<>>
         /\ \E night \in storedNights(B) :
              Cardinality(occupying(Append(reservations, B), B.roomType, night)) >= 2

\* the stay of a reservation as checkRoomAvailability and as the form see it
AppWindow(reservation) ==
  << App_createTimeAwareDate(reservation.checkInDate, hotelSettings.checkInTime),
     App_createTimeAwareDate(reservation.checkOutDate, hotelSettings.checkOutTime) >>

FormWindow(reservation) ==
  << Form_createTimeAwareDate(reservation.checkInDate, hotelSettings.checkInTime),
     Form_createTimeAwareDate(reservation.checkOutDate, hotelSettings.checkOutTime) >>

windowsOverlap(w1, w2) == Overlaps(w1[1], w1[2], w2[1], w2[2])

\* one stay ends on the date the other begins
backToBack(r1, r2) ==
  r1.roomType = r2.roomType /\ UTCDay(r1.checkOutDate) = UTCDay(r2.checkInDate)

overlapIsSymmetric ==
  \A i, j \in 1..Len(reservations) :
    /\ windowsOverlap(AppWindow(reservations[i]), AppWindow(reservations[j]))
         = windowsOverlap(AppWindow(reservations[j]), AppWindow(reservations[i]))
    /\ windowsOverlap(FormWindow(reservations[i]), FormWindow(reservations[j]))
         = windowsOverlap(FormWindow(reservations[j]), FormWindow(reservations[i]))

\* the stay the form asks for, as getAvailableRooms builds it
RequestedWindow(formData) ==
  << Form_createTimeAwareDate(LocalMidnight(formData.checkInDate), hotelSettings.checkInTime),
     Form_createTimeAwareDate(LocalMidnight(formData.checkOutDate), hotelSettings.checkOutTime) >>

\* a reservation of the type asked for that ends on the date the requested stay
\* begins, or begins on the date it ends, by the dates the form shows
meetsRequest(reservation, formData) ==
  /\ reservation.roomType = formData.roomType
  /\ \/ formatDateForInput(reservation.checkOutDate) = formData.checkInDate
     \/ formatDateForInput(reservation.checkInDate) = formData.checkOutDate

backToBackNeverOverlaps ==
  /\ \A i, j \in 1..Len(reservations) :
       backToBack(reservations[i], reservations[j]) =>
         /\ ~windowsOverlap(AppWindow(reservations[i]), AppWindow(reservations[j]))
         /\ ~windowsOverlap(FormWindow(reservations[i]), FormWindow(reservations[j]))
  /\ (form # <<>> /\ form[1].checkOutDate > form[1].checkInDate) =>
       \A r \in Range(overlappingReservations(form[1], editingReservation,
                                              RequestedWindow(form[1])[1],
                                              RequestedWindow(form[1])[2])) :
         ~meetsRequest(r, form[1])

requestedNights(formData) ==
  UTCDay(LocalMidnight(formData.checkInDate))
    ..(UTCDay(LocalMidnight(formData.checkOutDate)) - 1)

\* C4: getAvailableRooms never returns a room that a confirmed or checked-in
\* reservation, other than the one being edited, names as its room for a stay
\* that overlaps the requested one, of whatever type the reservation is.
C4_NoPinnedRoomOffered ==
  form # <<>> =>
    LET availableRooms == getAvailableRooms(form[1], editingReservation)
    IN  \A k \in 1..Len(availableRooms) : \A i \in 1..Len(reservations) :
          ~ /\ reservations[i].specificRoomId = availableRooms[k].id
            /\ reservations[i].status \in ActiveStatuses
            /\ ~(editingReservation # <<>> /\ reservations[i].id = editingReservation[1].id)
            /\ storedNights(reservations[i]) \cap requestedNights(form[1]) # {}

\* a start date at which the form finds a room for the requested duration
feasibleStart(formData, initialData, start) ==
  LET requestedDuration ==
        LocalMidnight(formData.checkOutDate) - LocalMidnight(formData.checkInDate)
  IN  Len(availableRoomsForPeriod(
            formData, initialData,
            Form_createTimeAwareDate(start, hotelSettings.checkInTime),
            Form_createTimeAwareDate(start + requestedDuration,
                                     hotelSettings.checkOutTime))) > 0

\* C5: when a start date at or after the scan's starting bound is feasible for
\* the requested duration, getNextAvailableDateForRequestedDuration returns a
\* date, and none later than that start date.
C5_NextDateNotAfterFeasible ==
  (form # <<>> /\ form[1].checkOutDate > form[1].checkInDate) =>
    LET found == getNextAvailableDateForRequestedDuration(form[1], editingReservation)
    IN  \A k \in 0..ScanAhead :
          LET start == searchStart(form[1]) + k * MinutesPerDay
          IN  feasibleStart(form[1], editingReservation, start)
                => found # <<>> /\ found[1] <= start

\* the scan passed over an infeasible date and found a later one
C5_Witness ==
  /\ form # <<>> /\ form[1].checkOutDate > form[1].checkInDate
  /\ LET found == getNextAvailableDateForRequestedDuration(form[1], editingReservation)
     IN  /\ found # <<>>
         /\ found[1] > searchStart(form[1])
         /\ ~feasibleStart(form[1], editingReservation, searchStart(form[1]))

-----------------------------------------------------------------------------
(* What the availability check and the form return                         *)

\* the window of a stay from calendar day inDay to calendar day outDay under
\* the hotel's two times
policyWindow(inDay, outDay) ==
  << inDay * MinutesPerDay + ParseTime(hotelSettings.checkInTime),
     outDay * MinutesPerDay + ParseTime(hotelSettings.checkOutTime) >>

\* the reservations of the booking's type, neither cancelled nor checked out,
\* whose window overlaps the window of the night
countedOnNight(B, night) ==
  { i \in 1..Len(reservations) :
      /\ reservations[i].roomType = B.roomType
      /\ reservations[i].status \notin TerminalStatuses
      /\ LET stay == policyWindow(UTCDay(reservations[i].checkInDate),
                                  UTCDay(reservations[i].checkOutDate))
             one  == policyWindow(night, night + 1)
         IN  stay[1] < one[2] /\ one[1] < stay[2] }

overbookedNights(B) ==
  { night \in storedNights(B) :
      Cardinality(countedOnNight(B, night)) + 1 > activeRooms(B.roomType) }

\* C13: checkRoomAvailability returns, in ascending order and once each, exactly
\* the nights of the candidate's stay on which the reservations of its type
\* that are neither cancelled nor checked out and overlap the night, plus one,
\* exceed the active rooms of the type.
C13_ReturnsExactlyOverbookedNights ==
  candidateInForm =>
    LET B      == handleSubmit(form[1])[1]
        result == checkRoomAvailability(B)
    IN  /\ \A k \in 1..(Len(result) - 1) : result[k] < result[k + 1]
        /\ { UTCDay(result[k]) : k \in 1..Len(result) } = overbookedNights(B)
        /\ \A k \in 1..Len(result) :
             result[k] = B.checkInDate
                           + (UTCDay(result[k]) - UTCDay(B.checkInDate)) * MinutesPerDay

\* two rooms of the type, a specific and a generic reservation on both nights
\* of the candidate's stay: both nights are returned
C13_Witness ==
  /\ candidateInForm
  /\ LET B == handleSubmit(form[1])[1]
     IN  /\ activeRooms(B.roomType) = 2
         /\ Len(checkRoomAvailability(B)) = 2
         /\ Cardinality(storedNights(B)) = 2
         /\ \E i, j \in 1..Len(reservations) :
              /\ reservations[i].specificRoomId # "" /\ reservations[j].specificRoomId = ""
              /\ \A night \in storedNights(B) : {i, j} \subseteq countedOnNight(B, night)

\* the reservations of the requested type, neither cancelled nor checked out
\* and other than the one being edited, whose window overlaps the requested
\* one, the dates of both taken as the form shows them
overlappingActive(formData, initialData) ==
  { i \in 1..Len(reservations) :
      /\ reservations[i].roomType = formData.roomType
      /\ reservations[i].status \notin TerminalStatuses
      /\ ~(initialData # <<>> /\ reservations[i].id = initialData[1].id)
      /\ LET stay == policyWindow(formatDateForInput(reservations[i].checkInDate),
                                  formatDateForInput(reservations[i].checkOutDate))
             asked == policyWindow(formData.checkInDate, formData.checkOutDate)
         IN  stay[1] < asked[2] /\ asked[1] < stay[2] }

\* the places in the roster of the active rooms of the requested type that no
\* overlapping reservation names
unpinnedRooms(formData, initialData) ==
  { k \in 1..Len(hotelSettings.rooms) :
      /\ hotelSettings.rooms[k].roomTypeId = formData.roomType
      /\ hotelSettings.rooms[k].isActive
      /\ \A i \in overlappingActive(formData, initialData) :
           reservations[i].specificRoomId # hotelSettings.rooms[k].id }

genericOverlapping(formData, initialData) ==
  { i \in overlappingActive(formData, initialData) : reservations[i].specificRoomId = "" }

-----------------------------------------------------------------------------
(* Properties of booking histories                                         *)

\* the rows of a table that hold a room of the type on the night
occupants(rows, roomType, night) ==
  { i \in 1..Len(rows) :
      /\ rows[i].room_type = roomType
      /\ rows[i].status \in ActiveStatuses
      /\ rows[i].check_in_date <= night
      /\ night < rows[i].check_out_date }

nightsOf(rows) ==
  UNION { rows[i].check_in_date..(rows[i].check_out_date - 1) : i \in 1..Len(rows) }

\* C2: over whole histories of creations (Proceed Anyway included) and saved
\* edits by one operator, starting from no reservations, no night has more
\* confirmed or checked-in reservations of a room type than the type has rooms.
C2_NoOverbooking ==
  \A roomType \in RoomTypeIds : \A night \in nightsOf(db) :
    Cardinality(occupants(db, roomType, night)) <= activeRooms(roomType)

\* C8: a stored status that has left confirmed is never set back to confirmed,
\* by no operation, a save through the edit form included.
C8_NeverBackToConfirmed ==
  [][ \A i \in 1..Len(db) :
        db[i].status # "confirmed" => db'[i].status # "confirmed" ]_vars

-----------------------------------------------------------------------------
(* Properties of status actions and sweeps                                 *)

\* C7: under every interleaving of status actions and sweeps on stale snapshots,
\* a stored status of cancelled or checked-out never changes again.
C7_TerminalIsFinal ==
  [][ \A i \in 1..Len(db) :
        db[i].status \in TerminalStatuses => db'[i].status = db[i].status ]_vars

\* the calls of a sweep that the store has not executed or whose answer has not arrived
sweepCallsOutstanding ==
  { i \in 1..Len(requests) : requests[i].by = "sweep" } # {}
  \/ { i \in 1..Len(responses) : responses[i].by = "sweep" } # {}

\* C6: once a sweep has run at this clock reading and its writes are applied,
\* a second run at the same reading selects nothing: it issues no status write.
C6_SecondSweepWritesNothing ==
  (sweepLog.ran /\ sweepLog.at = now /\ ~sweepCallsOutstanding)
    => noShowRequests(reservations) = <<>>

\* a sweep cancelled something and all its writes are applied
C6_Witness ==
  /\ sweepLog.ran /\ sweepLog.at = now /\ sweepLog.ids # {}
  /\ ~sweepCallsOutstanding
  /\ \A id \in sweepLog.ids : \E i \in 1..Len(reservations) :
       reservations[i].id = id /\ reservations[i].status = "cancelled"

\* the reservations the sweep is to select at the clock reading: the
\* reservation's dates are the table's dates, today is the local date
selectedByPolicy(snapshot) ==
  LET today == LocalDay(now)
  IN  { snapshot[i].id : i \in
          { j \in 1..Len(snapshot) :
              /\ snapshot[j].status = "confirmed"
              /\ \/ /\ UTCDay(snapshot[j].checkInDate) = today
                    /\ LocalMinutes(now) >= CutoffMinutes
                 \/ UTCDay(snapshot[j].checkOutDate) < today } }

\* C9: a sweep selects a reservation exactly when it is confirmed and either its
\* check-in date is today and it is 11:00 or later, or its check-out date is
\* before today; a future check-in is never cancelled.
C9_SweepSelectsByPolicy ==
  [][ checkForNoShows => sweepLog'.ids = selectedByPolicy(reservations) ]_vars

\* the calls a step has added to the calls in flight
newRequests == SubSeq(requests', Len(requests) + 1, Len(requests'))

\* C10: one sweep writes only to reservations its snapshot shows confirmed,
\* every write sets cancelled, and nothing else changes: a checked-in,
\* checked-out or cancelled reservation gets no write, a checked-in one whose
\* check-out date has passed included.
C10_SweepWritesOnlyConfirmed ==
  [][ checkForNoShows =>
        /\ \A k \in 1..Len(newRequests) :
             /\ newRequests[k].updateData.status = "cancelled"
             /\ \E i \in 1..Len(reservations) :
                  /\ reservations[i].id = newRequests[k].id
                  /\ reservations[i].status = "confirmed"
        /\ \A i \in 1..Len(reservations) :
             reservations[i].status # "confirmed" =>
               \A k \in 1..Len(newRequests) : newRequests[k].id # reservations[i].id
        /\ db' = db /\ reservations' = reservations ]_vars

\* a sweep has cancelled one reservation and left alone a checked-in one whose
\* check-out date has passed
C10_Witness ==
  /\ sweepLog.ran /\ sweepLog.ids # {}
  /\ \E i \in 1..Len(reservations) :
       /\ reservations[i].status = "checked-in"
       /\ isStayOverdue(reservations[i])
       /\ reservations[i].id \notin sweepLog.ids
       /\ db[i].status = "checked-in"

-----------------------------------------------------------------------------
(* Further properties of sweeps                                            *)

\* the sweep's cancel calls for a reservation that are in flight or answered
\* but not yet in the snapshot
sweepCallsFor(id) ==
  Cardinality({ i \in 1..Len(requests) : requests[i].by = "sweep" /\ requests[i].id = id })
    + Cardinality({ i \in 1..Len(responses) : responses[i].by = "sweep" /\ responses[i].id = id })

\* C11: over all runs of the sweep the cancel write is issued at most once for a
\* reservation, also when a run comes while an earlier cancel write for it is
\* still in flight.
C11_CancelWrittenOnce ==
  \A i \in 1..Len(db) : sweepCallsFor(db[i].id) <= 1

-----------------------------------------------------------------------------
(* Booking attempts that do not wait for the store                         *)

\* App.tsx 296-311: createReservation awaits the store while the form stays
\* usable, so a second attempt can run before the first insert is answered
NextRace ==
  \/ SubmitNewReservation
  \/ confirmReservationCreation
  \/ cancelReservationCreation
  \/ closeOverbookingWarning
  \/ StoreExecutes
  \/ AnswerArrives

SpecRace == Init /\ [][NextRace]_vars

\* with the booking added, every night of its stay is within the active rooms
\* of its type on the snapshot
fitsSnapshot(B) ==
  \A night \in storedNights(B) :
    Cardinality(occupying(reservations, B.roomType, night)) + 1
      <= activeRooms(B.roomType)

\* C12 (each attempt passes the check): a booking that a submission lets
\* through, whether its insert is issued at once or it is kept for the
\* operator's confirmation, fits the snapshot the submission ran on.
C12_SubmittedInsertWasAdmitted ==
  [][ /\ (pendingReservationData' # pendingReservationData
            /\ pendingReservationData' # <<>>)
           => fitsSnapshot(pendingReservationData'[1])
      /\ pendingReservationData' = pendingReservationData =>
           \A k \in 1..Len(newRequests) :
             newRequests[k].fn = "createReservation" =>
               fitsSnapshot(transformReservation(newRequests[k].updateData)) ]_vars

\* C12 (the race): two attempts were admitted on the same snapshot and both
\* were written: a night holds more confirmed reservations of a type than the
\* type has active rooms, no reservation having been edited.
C12_Witness ==
  /\ requests = <<>> /\ responses = <<>>
  /\ \E roomType \in RoomTypeIds : \E night \in nightsOf(db) :
       Cardinality({ i \in occupants(db, roomType, night) : db[i].status = "confirmed" })
         > activeRooms(roomType)


-----------------------------------------------------------------------------
(* One time reference                                                      *)

storedRow(id) == CHOOSE row \in Range(db) : row.id = id

\* the calendar days checkRoomAvailability resolves a reservation's dates to
appResolvedDays(r) ==
  << UTCDay(App_createTimeAwareDate(r.checkInDate, hotelSettings.checkInTime)),
     UTCDay(App_createTimeAwareDate(r.checkOutDate, hotelSettings.checkOutTime)) >>

\* the calendar days getAvailableRooms and the next-available-date scan
\* resolve them to
formResolvedDays(r) ==
  << LocalDay(Form_createTimeAwareDate(r.checkInDate, hotelSettings.checkInTime)),
     LocalDay(Form_createTimeAwareDate(r.checkOutDate, hotelSettings.checkOutTime)) >>

\* C15: the availability check, the form's room list and date scan, and the
\* sweep resolve every loaded reservation's check-in and check-out to the
\* stored dates, and the sweep's "check-in is today" test holds only on the
\* stored check-in date.
C15_OneTimeReference ==
  \A i \in 1..Len(reservations) :
    LET r      == reservations[i]
        stored == << storedRow(r.id).check_in_date, storedRow(r.id).check_out_date >>
    IN  /\ appResolvedDays(r) = stored
        /\ formResolvedDays(r) = stored
        /\ isCheckInOverdue(r) => LocalDay(now) = stored[1]
        /\ isStayOverdue(r) <=> stored[2] < LocalDay(now)


-----------------------------------------------------------------------------
(* Submissions of the reservation form                                     *)

formCalls == { i \in 1..Len(requests) :
                 requests[i].fn \in {"createReservation", "updateReservation"} }

\* C16: every reservation the form submits, new or edited, has its check-out
\* date strictly after its check-in date: none reaches the availability
\* check's pending slot, a call to the store or the table otherwise.
C16_CheckOutAfterCheckIn ==
  /\ \A i \in 1..Len(db) : db[i].check_out_date > db[i].check_in_date
  /\ \A i \in formCalls :
       requests[i].updateData.check_out_date > requests[i].updateData.check_in_date
  /\ \A i \in 1..Len(pendingReservationData) :
       pendingReservationData[i].checkOutDate > pendingReservationData[i].checkInDate
  /\ \A i \in 1..Len(reservations) :
       reservations[i].checkOutDate > reservations[i].checkInDate

\* a created reservation is in the table and an edit of it is on its way
C16_Witness ==
  /\ Len(db) > 0
  /\ \E i \in formCalls : requests[i].fn = "updateReservation"


-----------------------------------------------------------------------------
(* The notifier                                                            *)

\* Calls of sendEmail, whatever the backend and the network do.
InitEmail ==
  /\ InitApp({DefaultTimes})
  /\ db = <<>>
  /\ reservations = loadReservations(db)
  /\ InitMemos

NextEmail ==
  \/ sendEmail
  \/ fetchSettles
  \/ textArrives
  \/ jsonArrives

SpecEmail == InitEmail /\ [][NextEmail]_vars

\* C17: sendEmail never throws: its promise is never rejected; after a missing
\* backend URL, a response that is not OK (JSON body or not), a network failure
\* or a body that does not parse it resolves to {success: false, error: message},
\* and it resolves to {success: true} only after an OK response.
C17_SendEmailNeverThrows ==
  /\ mail.promise.state # "rejected"
  /\ mail.pc = "settled" =>
       /\ mail.promise.state = "fulfilled"
       /\ LET result == mail.promise.value[1]
          IN  /\ (mail.failure # "" \/ mail.supabaseUrl = "" \/ ~mail.response.ok) =>
                   /\ DOMAIN result = {"success", "error"}
                   /\ result.success = FALSE
                   /\ result.error \in STRING
              /\ result.success = TRUE =>
                   /\ mail.response.ok
                   /\ mail.failure = ""

\* a gateway answered 502 with a body that is not JSON, and the call resolved
\* to a failure carrying that body
C17_Witness ==
  /\ mail.pc = "settled"
  /\ mail.response = [ ok |-> FALSE, status |-> 502, body |-> "Bad Gateway" ]
  /\ mail.promise = [ state |-> "fulfilled",
                      value |-> << [ success |-> FALSE, error |-> "Bad Gateway" ] >> ]


-----------------------------------------------------------------------------
(* Status writes the store rejects                                         *)

\* The sweep over a loaded table whose writes the store may reject.
NextReject ==
  \/ checkForNoShows
  \/ StoreExecutes
  \/ RejectionArrives
  \/ AnswerArrives
  \/ Tick

SpecReject == InitSweep /\ [][NextReject]_vars

\* the step in which the rejection of a write of the sweep reaches the app
sweepWriteRejected ==
  \E i \in 1..Len(requests) :
    /\ requests[i].by = "sweep"
    /\ requests' = RemoveAt(requests, i)
    /\ responses' = responses /\ db' = db

\* C18: a rejected auto-cancellation write is not fatal: the snapshot is left
\* as it was, the reservation still confirmed in it, and the app stays in use
\* instead of giving way to an error screen.
C18_RejectedSweepWriteNotFatal ==
  [][ sweepWriteRejected =>
        /\ reservations' = reservations
        /\ appScreen' = "app" ]_vars


-----------------------------------------------------------------------------
(* Submissions the availability check turns down                           *)

\* the step in which the overbooking warning opens
overbookingReported == ~showOverbookingWarning /\ showOverbookingWarning'

\* C19: when checkRoomAvailability returns nights for a submitted new
\* reservation, nothing is written to the store, the reservation set is
\* unchanged, no pending reservation is kept, and the nights shown to the
\* operator are the nights returned for that submission.
C19_OverbookedSubmissionWritesNothing ==
  [][ overbookingReported =>
        /\ requests' = requests /\ responses' = responses
        /\ db' = db /\ reservations' = reservations
        /\ pendingReservationData' = <<>>
        /\ \E fd \in FormInputs(<<>>) :
             /\ handleSubmit(fd) # <<>>
             /\ Len(checkRoomAvailability(handleSubmit(fd)[1])) > 0
             /\ overbookedDates' = checkRoomAvailability(handleSubmit(fd)[1]) ]_vars

\* the warning is open on the nights of a turned-down submission; the table
\* holds what it held and no call is on its way
C19_Witness ==
  /\ showOverbookingWarning
  /\ Len(overbookedDates) > 0
  /\ Len(db) > 0
  /\ pendingReservationData = <<>>
  /\ requests = <<>> /\ responses = <<>>


-----------------------------------------------------------------------------
(* The overdue check-out indicator                                         *)

\* clock readings at the check-out time of each day and one minute past it
CheckOutReadings ==
  { LocalMidnight(d) + ParseTime(hotelSettings.checkOutTime) + m :
      d \in StayDays, m \in {0, 1} }

\* time passes; no dependency of a memo changes
TickToCheckOut ==
  /\ \E t \in CheckOutReadings : t > now /\ now' = t
  /\ UNCHANGED <<reminderFor, todayUTC, overdueCheckOuts, reservationsError, mail, tz,
                 hotelSettings, db, reservations, requests, responses,
                 editingReservation, pendingReservationData, overbookedDates,
                 showOverbookingWarning, reservationToCancel, form, sweepLog>>

\* Guests checking in over the days of their stays, the dashboard and the
\* reservation list on screen.  Stays may have begun the day before the app
\* is opened.
OverdueRows ==
  { [ id |-> 0, customer_id |-> "c1", check_in_date |-> d[1], check_out_date |-> d[2],
      room_type |-> "standard", specific_room_id |-> "", status |-> st,
      reminder_sent |-> FALSE, reminder_date |-> <<>>,
      cancellation_comment |-> "" ] :
    d \in { p \in ((FirstDay - 1)..MaxStayDay) \X StayDays : p[1] < p[2] },
    st \in {"confirmed", "checked-in"} }

InitOverdue ==
  /\ InitApp(TimePairs)
  /\ db \in Tables(OverdueRows, MaxStatusRows)
  /\ reservations = loadReservations(db)
  /\ InitMemos

NextOverdue ==
  \/ ClickCheckIn
  \/ StoreExecutes
  \/ AnswerArrives
  \/ TickToCheckOut

SpecOverdue == InitOverdue /\ [][NextOverdue]_vars

\* overdue by the policy: checked in, and the stored check-out date is before
\* today, or is today with the clock past the check-out time
checkOutIsOverdue(r) ==
  /\ r.status = "checked-in"
  /\ \/ storedRow(r.id).check_out_date < LocalDay(now)
     \/ /\ storedRow(r.id).check_out_date = LocalDay(now)
        /\ LocalMinutes(now) > ParseTime(hotelSettings.checkOutTime)

\* C20: the dashboard's list and the 'overdue' filter each flag a reservation
\* exactly when it is checked in and its check-out date is before today, or is
\* today with the current time past the check-out time; so they flag the same
\* reservations at every clock reading and in every zone.
C20_OverdueCheckOutFlagged ==
  \A i \in 1..Len(reservations) :
    LET r == reservations[i]
    IN  /\ (\E k \in 1..Len(overdueCheckOuts) : overdueCheckOuts[k].id = r.id)
             <=> checkOutIsOverdue(r)
        /\ (\E k \in 1..Len(filteredReservations) : filteredReservations[k].id = r.id)
             <=> checkOutIsOverdue(r)


-----------------------------------------------------------------------------
(* The pending-reminder and no-show-risk indicators                        *)

\* Math.ceil(minutes / (24 * 60)), the instants in minutes
CeilDays(minutes) == -((-minutes) \div MinutesPerDay)

\* Dashboard.tsx 25-27: todayUTC of the render at the current instant
Dashboard_todayUTC == UTCMidnight(UTCDay(now))

\* Dashboard.tsx 47-57: the test of the dashboard's count
Dashboard_pendingReminders(r) ==
  IF r.status # "confirmed" \/ r.reminderSent THEN FALSE
  ELSE LET daysUntilCheckIn == CeilDays(r.checkInDate - Dashboard_todayUTC)
       IN  daysUntilCheckIn <= ReminderDays /\ daysUntilCheckIn >= 0

\* App.tsx 533-543: the test of the 'pending-reminders' filter, with App's todayUTC
App_pendingReminders(reservation) ==
  LET daysUntilCheckIn == CeilDays(reservation.checkInDate - todayUTC)
  IN  /\ daysUntilCheckIn <= ReminderDays
      /\ daysUntilCheckIn >= 0
      /\ ~reservation.reminderSent
      /\ reservation.status = "confirmed"

\* EmailService.tsx 26-36: the test of the Email tab's list
EmailService_pendingReminders(r) ==
  LET daysUntilCheckIn == CeilDays(r.checkInDate - now)
  IN  /\ ~r.reminderSent
      /\ \/ /\ r.status = "confirmed"
            /\ daysUntilCheckIn <= ReminderDays /\ daysUntilCheckIn >= 0
         \/ r.status = "cancelled"

\* Dashboard.tsx 59-73: the test of the dashboard's no-show-risk count
Dashboard_noShowRisk(r) ==
  LET checkInDateUTC  == UTCMidnight(UTCDay(r.checkInDate))
      dayAfterCheckIn == checkInDateUTC + MinutesPerDay
  IN  /\ dayAfterCheckIn = Dashboard_todayUTC
      /\ r.status = "confirmed"
      /\ LocalMinutes(now) >= oneAMInMinutes

\* App.tsx 544-562: the test of the 'no-show-risk' filter, with App's todayUTC
App_noShowRisk(reservation) ==
  LET checkInDateUTC  == UTCMidnight(UTCDay(reservation.checkInDate))
      dayAfterCheckIn == checkInDateUTC + MinutesPerDay
  IN  /\ dayAfterCheckIn = todayUTC
      /\ reservation.status = "confirmed"
      /\ LocalMinutes(now) >= oneAMInMinutes

\* ReservationForm.tsx 629-636: the test of the list's No-Show Risk badge
ReservationList_isNoShowRisk(reservation) ==
  LET checkInDateOnly == LocalMidnight(LocalDay(reservation.checkInDate))
      today           == LocalMidnight(LocalDay(now))
  IN  /\ checkInDateOnly = today
      /\ reservation.status = "confirmed"
      /\ LocalMinutes(now) >= nineAMInMinutes

\* the rows the indicators are shown for: one-night stays from the day before
\* the app is opened to beyond the reminder window, reminded or not
IndicatorRows ==
  { [ id |-> 0, customer_id |-> "c1", check_in_date |-> d, check_out_date |-> d + 1,
      room_type |-> "standard", specific_room_id |-> "", status |-> st,
      reminder_sent |-> sent, reminder_date |-> <<>>,
      cancellation_comment |-> "" ] :
    d \in (FirstDay - 1)..(MaxStayDay + ReminderDays + 1), st \in Statuses, sent \in BOOLEAN }

\* clock readings around 01:00 and 09:00 local time of each day
IndicatorReadings ==
  { LocalMidnight(d) + m :
      d \in StayDays,
      m \in {oneAMInMinutes - 1, oneAMInMinutes, nineAMInMinutes - 1, nineAMInMinutes} }

\* time passes; App's memos keep their values
TickIndicators ==
  /\ \E t \in IndicatorReadings : t > now /\ now' = t
  /\ UNCHANGED <<reminderFor, todayUTC, overdueCheckOuts, reservationsError, mail, tz,
                 hotelSettings, db, reservations, requests, responses,
                 editingReservation, pendingReservationData, overbookedDates,
                 showOverbookingWarning, reservationToCancel, form, sweepLog>>

InitIndicators ==
  /\ InitApp({DefaultTimes})
  /\ db \in Tables(IndicatorRows, MaxStatusRows)
  /\ reservations = loadReservations(db)
  /\ InitMemos

NextIndicators == TickIndicators

SpecIndicators == InitIndicators /\ [][NextIndicators]_vars

\* days from today, on the hotel's calendar, to the stored check-in date
daysToCheckIn(r) == storedRow(r.id).check_in_date - LocalDay(now)

needsReminder(r) ==
  /\ r.status = "confirmed" /\ ~r.reminderSent
  /\ 0 <= daysToCheckIn(r) /\ daysToCheckIn(r) <= ReminderDays

\* C21: the dashboard's count, the 'pending-reminders' filter and the Email
\* tab's list each flag a reservation exactly when it is confirmed, its
\* reminder has not been sent and its check-in date is 0 to 3 days from today;
\* no cancelled, checked-in or checked-out reservation is flagged.
C21_PendingReminderFlagged ==
  \A i \in 1..Len(reservations) :
    LET r == reservations[i]
    IN  /\ Dashboard_pendingReminders(r) <=> needsReminder(r)
        /\ App_pendingReminders(r) <=> needsReminder(r)
        /\ EmailService_pendingReminders(r) <=> needsReminder(r)
        /\ r.status # "confirmed" =>
             /\ ~Dashboard_pendingReminders(r)
             /\ ~App_pendingReminders(r)
             /\ ~EmailService_pendingReminders(r)

atNoShowRisk(r) ==
  /\ r.status = "confirmed"
  /\ LocalMinutes(now) >= oneAMInMinutes
  /\ LocalDay(now) = storedRow(r.id).check_in_date + 1

\* C22: the dashboard's count, the 'no-show-risk' filter and the list's badge
\* each flag a reservation exactly when it is confirmed, the local time is
\* 01:00 or later and today is the day after its check-in date.
C22_NoShowRiskFlagged ==
  \A i \in 1..Len(reservations) :
    LET r == reservations[i]
    IN  /\ Dashboard_noShowRisk(r) <=> atNoShowRisk(r)
        /\ App_noShowRisk(r) <=> atNoShowRisk(r)
        /\ ReservationList_isNoShowRisk(r) <=> atNoShowRisk(r)


-----------------------------------------------------------------------------
(* The scan for the next available date                                    *)

\* the rooms left for a stay of the requested type from calendar day inDay to
\* calendar day outDay: the active rooms of the type that no overlapping
\* reservation names, less the overlapping reservations naming none
poolAt(formData, initialData, inDay, outDay) ==
  LET overlapping ==
        { i \in 1..Len(reservations) :
            /\ reservations[i].roomType = formData.roomType
            /\ reservations[i].status \notin TerminalStatuses
            /\ ~(initialData # <<>> /\ reservations[i].id = initialData[1].id)
            /\ LET stay  == policyWindow(formatDateForInput(reservations[i].checkInDate),
                                         formatDateForInput(reservations[i].checkOutDate))
                   asked == policyWindow(inDay, outDay)
               IN  stay[1] < asked[2] /\ asked[1] < stay[2] }
      free ==
        { k \in 1..Len(hotelSettings.rooms) :
            /\ hotelSettings.rooms[k].roomTypeId = formData.roomType
            /\ hotelSettings.rooms[k].isActive
            /\ \A i \in overlapping :
                 reservations[i].specificRoomId # hotelSettings.rooms[k].id }
      generic == { i \in overlapping : reservations[i].specificRoomId = "" }
  IN  IF Cardinality(free) > Cardinality(generic)
      THEN Cardinality(free) - Cardinality(generic) ELSE 0

\* the first calendar day the scan examines
scanBound(formData) == Max2(LocalDay(now), formData.checkInDate + 1)

-----------------------------------------------------------------------------
(* Editing a reservation                                                   *)

\* the snapshot without the reservation being edited
otherReservations ==
  SelectSeq(reservations, LAMBDA r : r.id # editingReservation[1].id)

\* the reservations of a snapshot, of the requested type and neither cancelled
\* nor checked out, whose window overlaps that of a stay from inDay to outDay
overlappingIn(snapshot, roomType, inDay, outDay) ==
  { i \in 1..Len(snapshot) :
      /\ snapshot[i].roomType = roomType
      /\ snapshot[i].status \notin TerminalStatuses
      /\ LET stay  == policyWindow(formatDateForInput(snapshot[i].checkInDate),
                                   formatDateForInput(snapshot[i].checkOutDate))
             asked == policyWindow(inDay, outDay)
         IN  stay[1] < asked[2] /\ asked[1] < stay[2] }

\* the rooms offered for such a stay, computed over a snapshot with nothing
\* left out of it
roomsOver(snapshot, roomType, inDay, outDay) ==
  LET overlapping == overlappingIn(snapshot, roomType, inDay, outDay)
      free == SelectSeq(hotelSettings.rooms,
                        LAMBDA room : /\ room.roomTypeId = roomType /\ room.isActive
                                      /\ \A i \in overlapping :
                                           snapshot[i].specificRoomId # room.id)
      generic == Cardinality({ i \in overlapping : snapshot[i].specificRoomId = "" })
  IN  SubSeq(free, 1, IF Len(free) > generic THEN Len(free) - generic ELSE 0)

\* the offsets from the scan's first day at which such a stay is offered a room
offeredOffsets(snapshot, formData) ==
  { k \in 0..ScanAhead :
      roomsOver(snapshot, formData.roomType, scanBound(formData) + k,
                scanBound(formData) + k + formData.checkOutDate - formData.checkInDate)
        # <<>> }

\* C24: while a reservation is edited, getAvailableRooms and the scan for the
\* next available date return what they would over the snapshot with that
\* reservation removed.
C24_EditedReservationDisregarded ==
  (form # <<>> /\ editingReservation # <<>>) =>
    LET formData == form[1]
        found    == getNextAvailableDateForRequestedDuration(formData, editingReservation)
        offsets  == offeredOffsets(otherReservations, formData)
    IN  /\ getAvailableRooms(formData, editingReservation)
             = roomsOver(otherReservations, formData.roomType,
                         formData.checkInDate, formData.checkOutDate)
        /\ (formData.checkOutDate > formData.checkInDate /\ offsets # {}) =>
             /\ found # <<>>
             /\ \E k \in offsets :
                  /\ found[1] = LocalMidnight(scanBound(formData) + k)
                  /\ \A k2 \in offsets : k <= k2

\* the edited reservation names a room and holds it on the dates shown to the
\* form, the form asks for its type on these dates, and the room is offered
C24_Witness ==
  /\ form # <<>> /\ editingReservation # <<>>
  /\ editingReservation[1].specificRoomId # ""
  /\ editingReservation[1].status = "confirmed"
  /\ form[1].roomType = editingReservation[1].roomType
  /\ form[1].checkInDate = formatDateForInput(editingReservation[1].checkInDate)
  /\ form[1].checkOutDate = formatDateForInput(editingReservation[1].checkOutDate)
  /\ \E k \in 1..Len(getAvailableRooms(form[1], editingReservation)) :
       getAvailableRooms(form[1], editingReservation)[k].id
         = editingReservation[1].specificRoomId


-----------------------------------------------------------------------------
(* The comment of an automatic cancellation                                *)

\* a calendar day of the model as en-US writes it
dateText(day) == DateStrings[day + 1]

\* the comment the policy asks for: the departure date when the stored
\* check-out date is before today, the 11:00 cutoff and the check-in date
\* otherwise
policyComment(id) ==
  IF storedRow(id).check_out_date < LocalDay(now)
  THEN "Automatically cancelled - Guest did not check in by departure date ("
         \o dateText(storedRow(id).check_out_date) \o ")"
  ELSE "Automatically cancelled - Guest did not check in by 11:00 AM on "
         \o dateText(storedRow(id).check_in_date)

\* C25: every cancellation the sweep writes carries a comment, naming the
\* 11:00 cutoff and the check-in date under the check-in-day rule and the
\* departure date when the check-out date is before today; the store keeps it
\* with the reservation; check-in and check-out writes leave the stored
\* comment as it was.
C25_SweepCommentNamesRuleAndDate ==
  [][ /\ \A k \in 1..Len(newRequests) :
           newRequests[k].by = "sweep" =>
             /\ "cancellation_comment" \in DOMAIN newRequests[k].updateData
             /\ newRequests[k].updateData.cancellation_comment # ""
             /\ newRequests[k].updateData.cancellation_comment
                  = policyComment(newRequests[k].id)
      /\ \A i \in 1..Len(db) :
           (Len(db') = Len(db) /\ db'[i] # db[i]
              /\ db'[i].status \in {"checked-in", "checked-out"}) =>
             db'[i].cancellation_comment = db[i].cancellation_comment ]_vars


-----------------------------------------------------------------------------
(* Calendar dates through the form and the store                           *)

\* C26: the dates the form is submitted with are the dates written to the
\* store, and a reservation reloaded from the store, opened in the edit form
\* and saved with no field changed is written with the dates it was stored with.
C26_DatesSurvivePersistence ==
  /\ \A formData \in FormInputs(<<>>) :
       handleSubmit(formData) # <<>> =>
         LET row == createReservation(handleSubmit(formData)[1]).updateData
         IN  /\ row.check_in_date = formData.checkInDate
             /\ row.check_out_date = formData.checkOutDate
  /\ editingReservation # <<>> =>
       LET saved == handleSubmit(initialFormData(editingReservation))
       IN  /\ saved # <<>>
           /\ updateReservation(saved[1]).updateData.check_in_date
                = storedRow(editingReservation[1].id).check_in_date
           /\ updateReservation(saved[1]).updateData.check_out_date
                = storedRow(editingReservation[1].id).check_out_date


-----------------------------------------------------------------------------
(* The form's room list against the availability check                     *)

\* C27: whenever getAvailableRooms offers a room for the type and dates of a
\* new reservation, checkRoomAvailability returns no night for it.
C27_OfferedRoomIsAdmitted ==
  candidateInForm =>
    (Len(getAvailableRooms(form[1], editingReservation)) >= 1
       => checkRoomAvailability(handleSubmit(form[1])[1]) = <<>>)


-----------------------------------------------------------------------------
(* Specific rooms                                                          *)

\* two rows of the table whose stays, by their stored dates and the hotel's
\* times, overlap
staysOverlap(row1, row2) ==
  LET w1 == policyWindow(row1.check_in_date, row1.check_out_date)
      w2 == policyWindow(row2.check_in_date, row2.check_out_date)
  IN  w1[1] < w2[2] /\ w2[1] < w1[2]

\* C28: after any creations and edits through the form by one operator, no two
\* confirmed or checked-in reservations with overlapping stays have the same
\* specific room.
C28_NoRoomDoubleBooked ==
  \A i, j \in 1..Len(db) :
    (i # j /\ db[i].status \in ActiveStatuses /\ db[j].status \in ActiveStatuses
       /\ db[i].specific_room_id # "" /\ staysOverlap(db[i], db[j]))
      => db[i].specific_room_id # db[j].specific_room_id


-----------------------------------------------------------------------------
(* No-shows under daily sweeps                                             *)

\* clock readings through the first day after the last check-out date
NoShowReadings ==
  { LocalMidnight(d) + m :
      d \in FirstDay..(MaxStayDay + 1), m \in {CutoffMinutes - 1, CutoffMinutes} }

\* time passes; a day ends only after a sweep has run in it
\* (setInterval(checkForNoShows, 30 * 60 * 1000))
TickNoShow ==
  /\ \E t \in NoShowReadings :
       /\ t > now
       /\ LocalDay(t) > LocalDay(now) => sweepLog.ran
       /\ now' = t
       /\ sweepLog' = IF LocalDay(t) > LocalDay(now) THEN NoSweep ELSE sweepLog
  /\ UNCHANGED <<reminderFor, todayUTC, overdueCheckOuts, reservationsError, mail, tz,
                 hotelSettings, db, reservations, requests, responses,
                 editingReservation, pendingReservationData, overbookedDates,
                 showOverbookingWarning, reservationToCancel, form>>

NextNoShow ==
  \/ checkForNoShows
  \/ StoreExecutes
  \/ AnswerArrives
  \/ TickNoShow

\* A confirmed reservation nobody checks in or cancels: the sweep runs every
\* day, the store executes every write and its answers arrive.
SpecNoShow ==
  /\ InitStatus
  /\ [][NextNoShow]_vars
  /\ WF_vars(checkForNoShows)
  /\ WF_vars(StoreExecutes)
  /\ WF_vars(AnswerArrives)
  /\ WF_vars(TickNoShow)

\* C29: the reservation is eventually cancelled; a sweep on the first day
\* after its check-out date selects it if it is still confirmed; and no sweep
\* selects it on a day after its check-in day and up to its check-out date.
C29_NoShowEventuallyCancelled ==
  /\ <>(\A i \in 1..Len(db) : db[i].status = "cancelled")
  /\ [][ checkForNoShows =>
           \A i \in 1..Len(reservations) :
             LET id   == reservations[i].id
                 from == storedRow(id).check_in_date
                 to   == storedRow(id).check_out_date
             IN  /\ (reservations[i].status = "confirmed" /\ LocalDay(now) = to + 1)
                      => id \in sweepLog'.ids
                 /\ (from < LocalDay(now) /\ LocalDay(now) < to + 1)
                      => id \notin sweepLog'.ids ]_vars


-----------------------------------------------------------------------------
(* Reminders                                                               *)

\* emailService.ts generateReminderEmail(reservation, customer)
generateReminderEmail ==
  [ subject |-> "Reservation Reminder", html |-> "<p>reminder</p>", text |-> "reminder" ]

\* customers.find(c => c.id === reservation?.customerId).email
customerEmail == "guest@example.com"

\* App.tsx 418-422: the update call after a successful send
reminderUpdate(reservationId) ==
  [ fn |-> "updateReservation", id |-> reservationId, by |-> "reminder",
    updateData |-> [ reminder_sent |-> TRUE, reminder_date |-> <<now>> ] ]

\* App.tsx 405-415 with EmailService.tsx 238: the Send button of a row of the
\* Email tab's list, up to await sendEmail(...)
sendReminder ==
  /\ mail.pc = "idle" /\ reminderFor = <<>>
  /\ CallsOutstanding < MaxRequests
  /\ \E i \in 1..Len(reservations) :
       /\ EmailService_pendingReminders(reservations[i])
       /\ reminderFor' = <<reservations[i].id>>
  /\ \E supabaseUrl \in SupabaseUrls, fromEmail \in FromEmails :
       mail' = sendEmailCall(supabaseUrl, customerEmail, generateReminderEmail, fromEmail)
  /\ UNCHANGED <<todayUTC, overdueCheckOuts, reservationsError, tz, hotelSettings, now,
                 db, reservations, requests, responses, editingReservation,
                 pendingReservationData, overbookedDates, showOverbookingWarning,
                 reservationToCancel, form, sweepLog>>

\* the promise of the send is fulfilled with { success: true }
sendSucceeded ==
  /\ mail.promise.state = "fulfilled"
  /\ mail.promise.value[1].success

\* App.tsx 415-431: sendReminder after await sendEmail(...): the update call on
\* success, an alert otherwise (result.success false, or the catch)
reminderSettles ==
  /\ reminderFor # <<>> /\ mail.pc = "settled"
  /\ requests' = IF sendSucceeded
                 THEN Append(requests, reminderUpdate(reminderFor[1]))
                 ELSE requests
  /\ mail' = NoMail
  /\ reminderFor' = <<>>
  /\ UNCHANGED <<todayUTC, overdueCheckOuts, reservationsError, tz, hotelSettings, now,
                 db, reservations, responses, editingReservation,
                 pendingReservationData, overbookedDates, showOverbookingWarning,
                 reservationToCancel, form, sweepLog>>

\* One confirmed reservation: reminders are sent for it while it is edited; the
\* operator waits for the store's answer before the next click.
InitReminder ==
  /\ InitApp({DefaultTimes})
  /\ db \in Tables(StatusRows({"confirmed"}), MaxStatusRows)
  /\ reservations = loadReservations(db)
  /\ InitMemos

NextReminder ==
  \/ Idle /\ sendReminder
  \/ fetchSettles
  \/ textArrives
  \/ jsonArrives
  \/ reminderSettles
  \/ Idle /\ onEdit
  \/ Idle /\ closeEdit
  \/ Idle /\ SubmitEdit
  \/ StoreExecutes
  \/ AnswerArrives

SpecReminder == InitReminder /\ [][NextReminder]_vars

\* the call an edit's save sends is executed by the store in this step
editSaved(i) ==
  /\ requests[i].fn = "updateReservation" /\ requests[i].by = "operator"
  /\ db' = storeExecute(db, requests[i])
  /\ requests' = RemoveAt(requests, i)

\* a call that sets reminder_sent is added to the calls in flight in this step
setsReminderSent ==
  /\ Len(requests') = Len(requests) + 1
  /\ "reminder_sent" \in DOMAIN requests'[Len(requests')].updateData
  /\ requests'[Len(requests')].updateData.reminder_sent

C30_FlagOnlyAfterSuccess ==
  /\ [](\A k \in 1..Len(db) : db[k].reminder_sent => db[k].reminder_date # <<>>)
  /\ [][ setsReminderSent =>
           \/ /\ reminderFor # <<>> /\ mail.pc = "settled" /\ sendSucceeded
              /\ requests'[Len(requests')].id = reminderFor[1]
           \/ /\ editingReservation # <<>> /\ editingReservation[1].reminderSent
              /\ requests'[Len(requests')].id = editingReservation[1].id ]_vars

C30_FailureChangesNothing ==
  [][ (reminderFor # <<>> /\ reminderFor' = <<>> /\ ~sendSucceeded)
        => UNCHANGED <<db, requests, responses, reservations>> ]_vars

C30_EditPreservesReminder ==
  [][ \A i \in 1..Len(requests) :
        editSaved(i) =>
          \A k \in 1..Len(db) :
            /\ db'[k].reminder_sent = db[k].reminder_sent
            /\ db'[k].reminder_date = db[k].reminder_date ]_vars

\* C30: reminder_sent is set only by a call made after sendEmail resolved to
\* success for that reservation (or carried over by an edit of a reservation
\* that had it); a send that fails leaves the table and the calls in flight as
\* they are; and the store's execution of an edit's save leaves reminder_sent
\* and reminder_date of the row as they were.
C30_ReminderFlagFollowsSend ==
  /\ C30_FlagOnlyAfterSuccess
  /\ C30_FailureChangesNothing
  /\ C30_EditPreservesReminder

====
